---- MODULE Spec2Model ----
(***************************************************************************)
(* State-machine model of the voice-driven exhibit component               *)
(* (src/src/components/InteractiveCanvas.jsx) and of its layout utility    *)
(* (src/unnamed/part_003, imported as ../utils/flowerUtils).               *)
(*                                                                         *)
(* The event loop runs one task at a time: every action is one task (a     *)
(* timer callback, an event handler, a render) with the microtasks it      *)
(* queues.  A timer handle holds the delay the timer was armed with (Off   *)
(* when it is not armed); an armed timer may expire whenever the loop is   *)
(* free, so every order of expiries the delays allow is covered, and more. *)
(* React commits a queued state update in a task of its own, which runs    *)
(* before the next timer, frame or network task, and a zero-delay timeout  *)
(* runs before any timer with a delay; recognizer events are dispatched    *)
(* back to back and may come before either.                                *)
(* Events of the speech recognizer, of the network and of the CSS          *)
(* transition may come at any time, in any order the Web Speech API        *)
(* allows.                                                                 *)
(*                                                                         *)
(* React state is modelled by the committed value (status, text, ...) and  *)
(* the value the queued updates will produce at the next render (pStatus,  *)
(* pText, ...); Render commits them and runs the effects whose             *)
(* dependencies changed, cleanups first, in declaration order.             *)
(*                                                                         *)
(* Strings are sequences of characters; the Korean syllables of the        *)
(* scenarios are written in Latin letters ("an","nyeong" / "ha","se","yo").*)
(*                                                                         *)
(* The audio graph (microphone stream, audio context, analyser, health     *)
(* check and track recovery) is a second record of state with actions of   *)
(* its own; every await of the code is a point where other tasks run.      *)
(* The layout (willTextOverflow and the loops of drawFrame that paint the  *)
(* text) is a pure function of the shape, the font and the list, and is    *)
(* also run on its own, on shapes and fonts chosen at the start.           *)
(***************************************************************************)
EXTENDS Integers, Sequences, FiniteSets, TLC

(***************************************************************************)
(* Program constants (milliseconds, src/unnamed/part_000 is the revision   *)
(* of constants/appConstants.js that the component imports from).          *)
(***************************************************************************)
RESULT_DISPLAY_DELAY_MS == 1500
RENDER_IDLE_DELAY_MS == 500
NEW_TEXT_FADE_DURATION_MS == 1200
SILENCE_TIMEOUT_MS == 1000
RECOGNITION_RESTART_DELAY_MS == 500
RECOGNITION_MAX_RETRIES == 3
RENDER_IDLE_WATCHDOG_MS == 5000
\* VOLUME_THRESHOLD = 0.15, in hundredths
VOLUME_THRESHOLD == 15

(***************************************************************************)
(* Bounds of the model.                                                    *)
(***************************************************************************)
\* final segments one session may buffer
MaxSegments == 2
\* recognizer instances that exist at once (the current one and discarded
\* ones whose end event is still to come)
MaxInstances == 2
\* zero-delay startListening tasks queued at once
MaxDeferredStarts == 1
\* handleTranscript calls suspended on the resource load at once
MaxAwaiting == 2
\* microphone streams and audio contexts that exist at once (the current
\* one and ones a later rebuild left behind)
MaxStreams == 2
MaxContexts == 2
\* getUserMedia requests in flight at once
MaxAcquiring == 3

\* a null timer handle
Off == -1

STATUSES == {"idle", "listening", "done", "rendering", "clearing"}
FADE_PHASES == {"idle", "out", "in"}

(***************************************************************************)
(* Inputs.                                                                 *)
(***************************************************************************)
SP == " "
ANNYEONG == <<"an", "nyeong">>
HASEYO == <<"ha", "se", "yo">>
\* transcripts as the recognizer delivers them, before trim(): Chrome puts
\* a leading space on later segments and may deliver an empty transcript
RawTranscripts == {ANNYEONG, <<SP>> \o HASEYO, <<SP>>}
\* what the visitor says, final segment by final segment, over and over
Spoken == <<ANNYEONG, HASEYO>>
\* error codes of SpeechRecognitionErrorEvent
ErrorCodes == {"aborted", "no-speech", "network", "not-allowed",
               "service-not-allowed", "audio-capture", "bad-grammar"}
\* outcomes of recognizer.start() on an instance that is not in a session
StartOutcomes == {"ok", "throw"}
\* volume readings in hundredths (0 is also what a missing analyser reads)
Volumes == {0, 5, 15, 20}
InstanceIds == 1..MaxInstances

(***************************************************************************)
(* String helpers: Array.prototype.join(" ") and String.prototype.trim().  *)
(***************************************************************************)
\* a faulty join: the segments run together without a separator
RECURSIVE JoinNoSeparator(_)
JoinNoSeparator(items) ==
  IF items = <<>> THEN <<>> ELSE items[1] \o JoinNoSeparator(Tail(items))

RECURSIVE JoinSp(_)
JoinSp(items) ==
  IF items = <<>> THEN <<>>
  ELSE IF Len(items) = 1 THEN items[1]
  ELSE items[1] \o <<SP>> \o JoinSp(Tail(items))

RECURSIVE TrimLeft(_)
TrimLeft(s) ==
  IF s # <<>> /\ s[1] = SP THEN TrimLeft(Tail(s)) ELSE s

RECURSIVE TrimRight(_)
TrimRight(s) ==
  IF s # <<>> /\ s[Len(s)] = SP THEN TrimRight(SubSeq(s, 1, Len(s) - 1)) ELSE s

Trim(s) == TrimRight(TrimLeft(s))

(***************************************************************************)
(* JSON.stringify and JSON.parse on arrays of strings (lines 34 and 82).   *)
(* The serialized text is a sequence of characters; a quote or a backslash *)
(* inside a string is written with a backslash before it.                  *)
(***************************************************************************)
Quote == "\""
Backslash == "\\"

Escape(ch) ==
  IF ch = Quote \/ ch = Backslash THEN <<Backslash, ch>> ELSE <<ch>>

RECURSIVE StringifyChars(_)
StringifyChars(str) ==
  IF str = <<>> THEN <<>> ELSE Escape(str[1]) \o StringifyChars(Tail(str))

StringifyString(str) == <<Quote>> \o StringifyChars(str) \o <<Quote>>

\* a faulty serialization: quotes and backslashes are written as they are
RECURSIVE StringifyItemsUnescaped(_)
StringifyItemsUnescaped(items) ==
  IF items = <<>> THEN <<>>
  ELSE IF Len(items) = 1 THEN <<Quote>> \o items[1] \o <<Quote>>
  ELSE <<Quote>> \o items[1] \o <<Quote, ",">>
         \o StringifyItemsUnescaped(Tail(items))

RECURSIVE StringifyItems(_)
StringifyItems(items) ==
  IF items = <<>> THEN <<>>
  ELSE IF Len(items) = 1 THEN StringifyString(items[1])
  ELSE StringifyString(items[1]) \o <<",">> \o StringifyItems(Tail(items))

JSONstringify(items) == <<"[">> \o StringifyItems(items) \o <<"]">>

\* reads a string from the character after its opening quote; gives the
\* string and the position after its closing quote
RECURSIVE ParseString(_, _, _)
ParseString(chars, i, acc) ==
  IF i > Len(chars) THEN [value |-> acc, next |-> i]
  ELSE IF chars[i] = Quote THEN [value |-> acc, next |-> i + 1]
  ELSE IF chars[i] = Backslash /\ i < Len(chars)
  THEN ParseString(chars, i + 2, Append(acc, chars[i + 1]))
  ELSE ParseString(chars, i + 1, Append(acc, chars[i]))

RECURSIVE ParseArray(_, _, _)
ParseArray(chars, i, acc) ==
  IF i > Len(chars) \/ chars[i] = "]" THEN acc
  ELSE IF chars[i] = Quote
  THEN LET r == ParseString(chars, i + 1, <<>>)
       IN ParseArray(chars, r.next, Append(acc, r.value))
  ELSE ParseArray(chars, i + 1, acc)

JSONparse(chars) == ParseArray(chars, 2, <<>>)

\* localStorage under the key "flowerText": absent, or the stored text
NoItem == [present |-> FALSE, value |-> <<>>]

\* the initializer of the text state (lines 32-35)
restoreText(item) ==
  IF item.present /\ item.value # <<>> THEN JSONparse(item.value) ELSE <<>>

\* the persistence effect (lines 80-86)
persistText(items) ==
  IF Len(items) > 0
  THEN [present |-> TRUE, value |-> JSONstringify(items)]
  ELSE NoItem

(***************************************************************************)
(* Layout (flowerUtils.willTextOverflow, part_003 lines 103-160).  The     *)
(* shape resource is given by what isPointInPath(expandedPath, x, y) says  *)
(* on the text lines: a list of lines, bottom line first, each a list of   *)
(* booleans for x = 0 .. flowerWidth - 1.  A 2D context is null or has the *)
(* widths measureText gives with the font of line 117.                     *)
(***************************************************************************)
\* the shape of the exhibit: 4 pixels of the bottom line and 5 of the line
\* above lie inside the path
FlowerShape ==
  << <<TRUE, TRUE, TRUE, TRUE, FALSE>>, <<TRUE, TRUE, TRUE, TRUE, TRUE>> >>

\* measureText(ch).width: a space or a punctuation mark is 1 wide, a
\* syllable 2
CharWidth == [ch \in {SP, Quote, Backslash, ",", "]",
                      "an", "nyeong", "ha", "se", "yo"} |->
                IF ch \in {"an", "nyeong", "ha", "se", "yo"} THEN 2 ELSE 1]

NoContext == [available |-> FALSE, width |-> CharWidth]
Canvas2D == [available |-> TRUE, width |-> CharWidth]

\* the scan of one line (lines 123-141): the ranges [startX, x) of
\* consecutive points inside the path, left to right
RECURSIVE ScanLine(_, _, _, _, _)
ScanLine(inside, x, inPath, startX, ranges) ==
  IF x >= Len(inside)
  THEN IF inPath THEN Append(ranges, <<startX, Len(inside)>>) ELSE ranges
  ELSE IF inside[x + 1] /\ ~inPath
  THEN ScanLine(inside, x + 1, TRUE, x, ranges)
  ELSE IF ~inside[x + 1] /\ inPath
  THEN ScanLine(inside, x + 1, FALSE, startX, Append(ranges, <<startX, x>>))
  ELSE ScanLine(inside, x + 1, inPath, startX, ranges)

\* a faulty placement: a character that would end exactly at xEnd is not
\* placed
RECURSIVE PlaceInRangeTight(_, _, _, _, _)
PlaceInRangeTight(chars, width, charIndex, currX, xEnd) ==
  IF charIndex < Len(chars) /\ currX < xEnd
  THEN IF currX + width[chars[charIndex + 1]] >= xEnd
       THEN charIndex
       ELSE PlaceInRangeTight(chars, width, charIndex + 1,
                              currX + width[chars[charIndex + 1]], xEnd)
  ELSE charIndex

\* the inner while loop (lines 145-152): places characters from charIndex
\* on, returns the new charIndex
RECURSIVE PlaceInRange(_, _, _, _, _)
PlaceInRange(chars, width, charIndex, currX, xEnd) ==
  IF charIndex < Len(chars) /\ currX < xEnd
  THEN IF currX + width[chars[charIndex + 1]] > xEnd
       THEN charIndex
       ELSE PlaceInRange(chars, width, charIndex + 1,
                         currX + width[chars[charIndex + 1]], xEnd)
  ELSE charIndex

\* the loop over the ranges of one line (lines 143-156)
RECURSIVE PlaceInRanges(_, _, _, _)
PlaceInRanges(chars, width, charIndex, ranges) ==
  IF ranges = <<>> THEN charIndex
  ELSE LET next == PlaceInRange(chars, width, charIndex,
                                ranges[1][1], ranges[1][2])
       IN IF next >= Len(chars) THEN next
          ELSE PlaceInRanges(chars, width, next, Tail(ranges))

\* the loop over the lines, bottom to top (line 122)
RECURSIVE PlaceInLines(_, _, _, _)
PlaceInLines(chars, width, charIndex, lines) ==
  IF lines = <<>> \/ charIndex >= Len(chars) THEN charIndex
  ELSE PlaceInLines(chars, width,
                    PlaceInRanges(chars, width, charIndex,
                                  ScanLine(lines[1], 0, FALSE, 0, <<>>)),
                    Tail(lines))

(***************************************************************************)
(* The draw path (drawFrame, InteractiveCanvas.jsx lines 698-737): the     *)
(* same loops, with fillText(ch, currX, y) for every character placed.     *)
(* The calls of fillText are kept in the order they are made, each with    *)
(* the index of its character, its line (1 is the bottom line), the range  *)
(* it is in, its x and its width.                                          *)
(***************************************************************************)
\* a faulty loop: a character that does not fit is passed over
RECURSIVE FillInRangeSkips(_, _, _, _, _, _, _)
FillInRangeSkips(chars, width, charIndex, currX, range, line, filled) ==
  IF charIndex < Len(chars) /\ currX < range[2]
  THEN LET w == width[chars[charIndex + 1]]
       IN IF currX + w > range[2]
          THEN FillInRangeSkips(chars, width, charIndex + 1, currX, range,
                                line, filled)
          ELSE FillInRangeSkips(
                 chars, width, charIndex + 1, currX + w, range, line,
                 Append(filled, [index |-> charIndex, line |-> line,
                                 range |-> range, x |-> currX, w |-> w]))
  ELSE [charIndex |-> charIndex, filled |-> filled]

\* the inner while loop (lines 721-732)
RECURSIVE FillInRange(_, _, _, _, _, _, _)
FillInRange(chars, width, charIndex, currX, range, line, filled) ==
  IF charIndex < Len(chars) /\ currX < range[2]
  THEN LET w == width[chars[charIndex + 1]]
       IN IF currX + w > range[2]
          THEN [charIndex |-> charIndex, filled |-> filled]
          ELSE FillInRange(
                 chars, width, charIndex + 1, currX + w, range, line,
                 Append(filled, [index |-> charIndex, line |-> line,
                                 range |-> range, x |-> currX, w |-> w]))
  ELSE [charIndex |-> charIndex, filled |-> filled]

\* the loop over the ranges of one line (lines 719-736)
RECURSIVE FillInRanges(_, _, _, _, _, _)
FillInRanges(chars, width, charIndex, ranges, line, filled) ==
  IF ranges = <<>> THEN [charIndex |-> charIndex, filled |-> filled]
  ELSE LET next == FillInRange(chars, width, charIndex, ranges[1][1],
                               ranges[1], line, filled)
       IN IF next.charIndex >= Len(chars) THEN next
          ELSE FillInRanges(chars, width, next.charIndex, Tail(ranges),
                            line, next.filled)

\* the loop over the lines, bottom to top (line 698)
RECURSIVE FillInLines(_, _, _, _, _, _)
FillInLines(chars, width, charIndex, lines, line, filled) ==
  IF lines = <<>> \/ charIndex >= Len(chars)
  THEN [charIndex |-> charIndex, filled |-> filled]
  ELSE LET next == FillInRanges(chars, width, charIndex,
                                ScanLine(lines[1], 0, FALSE, 0, <<>>),
                                line, filled)
       IN FillInLines(chars, width, next.charIndex, Tail(lines), line + 1,
                      next.filled)

\* the text of one frame (lines 673-737): nothing is drawn for the empty
\* list
drawText(resources, width, text) ==
  IF Len(text) > 0
  THEN FillInLines(JoinSp(text), width, 0, resources, 1, <<>>).filled
  ELSE <<>>

\* a faulty check: only the utterance that was added is laid out
willTextOverflowLastOnly(resources, ctx, textItems) ==
  IF Len(textItems) = 0 THEN FALSE
  ELSE IF ~ctx.available THEN FALSE
  ELSE LET characters == textItems[Len(textItems)]
       IN PlaceInLines(characters, ctx.width, 0, resources) < Len(characters)

\* willTextOverflow, given what loadFlowerResources resolved to and what
\* getContext("2d") returned
willTextOverflow(resources, ctx, textItems) ==
  IF Len(textItems) = 0 THEN FALSE
  ELSE IF ~ctx.available THEN FALSE
  ELSE LET characters == JoinSp(textItems)
       IN PlaceInLines(characters, ctx.width, 0, resources) < Len(characters)


(***************************************************************************)
(* State.                                                                  *)
(***************************************************************************)
VARIABLES
  \* React state as committed by the last render (lines 32-46)
  status, text, fadePhase,
  \* what the queued state updates produce at the next render, whether a
  \* setText is queued, whether the component has work pending, and whether
  \* the watchdog has a setStatus("idle") in the queue
  pStatus, pText, pTextSet, pFadePhase, dirty, pWatchdog,
  \* refs (lines 48-74); a null instance is 0, a null timer handle is Off
  recognitionRef, recognitionActiveRef, pendingRecognitionStartRef,
  statusRef, textRef, silenceTimerRef, collectedTranscriptsRef,
  resultTimerRef, resultTranscript,
  recognitionRetryCountRef, recognitionRestartTimeoutRef,
  volumeCheckIntervalRef, statusWatchdogRef, pendingTranscriptRef,
  newTextAnimationRef, animationFrameRef,
  \* the render pass: its idle-settle timer and whether it waits for the load
  idleTimer, passWaiting,
  \* requestAnimationFrame callbacks that are pending, and whether the one
  \* animationFrameRef names is among them (a callback that has run leaves
  \* its id in the ref)
  frames, frameLive,
  \* previousCharCountRef (line 52), and what the last step painted: the
  \* number of characters of the text, the count below which they are
  \* painted at full opacity (line 681) and whether the others are painted
  \* at the alpha of the animation (line 727)
  previousCharCountRef, painted,
  \* environment: recognizer instances, queued setTimeout(startListening, 0)
  \* tasks, the memoized resource promise, handleTranscript calls suspended
  \* in await willTextOverflow, a running opacity transition of the canvas
  rec, deferredStarts, flowerResourcesPromise, awaitingOverflow,
  transitionRunning,
  \* observers: whether a segment or speech-start event came after the
  \* silence timer was armed, final segments received since the session
  \* started or was finalized, starts the component made by itself after a
  \* fatal error since the last start by the volume gate, whether the retry
  \* cap suspended the restarts, and the timers whose handle was overwritten
  \* while armed
  silenceStale, heard, automaticRestarts, suspended, leaked,
  \* more observers: what the startListening call of the last step did,
  \* the kind of segment the last step delivered, the last recognition
  \* error no start was made after,
  \* whether every finalize emitted the join of the segments heard
  lastStart, lastResult, lastError, finalizeOk,
  \* observers of the volume gate: what the poll of the last step sampled,
  \* and whether a working analyser ever measured the threshold or more
  lastPoll, loud,
  \* localStorage under the key "flowerText"
  storage,
  \* observers of the text: the lists the last step installed, each with the
  \* list that was current when it was installed, and the utterance whose
  \* candidate overflowed last
  installed, overflowed,
  \* observers of the resource cache: executions of the loader so far, the
  \* execution whose promise is memoized, the executions whose result a
  \* caller received, and how many suspended callers the completion of the
  \* load resumed
  fetches, memoized, delivered, served,
  \* calls of willTextOverflow on their own: what loadFlowerResources
  \* resolved to, the widths of the font, the last call and the call before
  layoutResources, layoutFont, probe, earlier,
  \* what isPointInPath says on the lines the draw path scans: drawFrame
  \* assigns flowerHeight to canvas.height (line 667), an unsigned long,
  \* and scans up from canvas.height - LINE_HEIGHT_PX (line 698), while
  \* willTextOverflow scans up from flowerHeight - LINE_HEIGHT_PX
  canvasLines,
  \* the text drawn on its own: the last list drawn and the calls of
  \* fillText made for it
  drawn,
  \* whether the component is mounted
  mounted,
  \* the audio graph (lines 64-74): refs (a null stream or context is 0),
  \* the readyState of the track of every stream and the state of every
  \* context, the calls of reinitializeAudioMonitoring suspended in await
  \* getUserMedia (by who awaits them), the context whose resume() the
  \* health check awaits (0 when none), and pending recovery timeouts
  micStreamRef, tracks, audioContextRef, contexts, analyserRef,
  audioHealthIntervalRef, audioRecoveryTimeoutRef,
  audioHealthCheckRunningRef, acquiring, resuming, recoveryTimers,
  \* observers of the audio graph: what the last step was and how many
  \* calls of reinitializeAudioMonitoring it made
  audioStep, rebuilds

vars ==
  <<status, text, fadePhase, pStatus, pText, pTextSet, pFadePhase, dirty,
    pWatchdog, recognitionRef, recognitionActiveRef,
    pendingRecognitionStartRef, statusRef, textRef, silenceTimerRef,
    collectedTranscriptsRef, resultTimerRef, resultTranscript,
    recognitionRetryCountRef, recognitionRestartTimeoutRef,
    volumeCheckIntervalRef, statusWatchdogRef, pendingTranscriptRef,
    newTextAnimationRef, animationFrameRef, idleTimer, passWaiting,
    frames, frameLive, previousCharCountRef, painted, rec,
    deferredStarts, flowerResourcesPromise, awaitingOverflow,
    transitionRunning, silenceStale, heard, automaticRestarts,
    suspended, leaked, lastStart, lastResult, lastError, finalizeOk,
    lastPoll, loud, storage, installed, overflowed, fetches, memoized,
    delivered, served, layoutResources, layoutFont, probe, earlier,
    canvasLines, drawn,
    mounted, micStreamRef, tracks, audioContextRef, contexts, analyserRef,
    audioHealthIntervalRef, audioRecoveryTimeoutRef,
    audioHealthCheckRunningRef, acquiring, resuming, recoveryTimers,
    audioStep, rebuilds>>

\* the state as one record, so that a handler is a function from the state
\* before it to the state after it
Cur ==
  [status |-> status, text |-> text, fadePhase |-> fadePhase,
   pStatus |-> pStatus, pText |-> pText, pTextSet |-> pTextSet,
   pFadePhase |-> pFadePhase, dirty |-> dirty, pWatchdog |-> pWatchdog,
   recognitionRef |-> recognitionRef,
   recognitionActiveRef |-> recognitionActiveRef,
   pendingRecognitionStartRef |-> pendingRecognitionStartRef,
   statusRef |-> statusRef, textRef |-> textRef,
   silenceTimerRef |-> silenceTimerRef,
   collectedTranscriptsRef |-> collectedTranscriptsRef,
   resultTimerRef |-> resultTimerRef, resultTranscript |-> resultTranscript,
   recognitionRetryCountRef |-> recognitionRetryCountRef,
   recognitionRestartTimeoutRef |-> recognitionRestartTimeoutRef,
   volumeCheckIntervalRef |-> volumeCheckIntervalRef,
   statusWatchdogRef |-> statusWatchdogRef,
   pendingTranscriptRef |-> pendingTranscriptRef,
   newTextAnimationRef |-> newTextAnimationRef,
   animationFrameRef |-> animationFrameRef, idleTimer |-> idleTimer,
   passWaiting |-> passWaiting,
   frames |-> frames, frameLive |-> frameLive,
   previousCharCountRef |-> previousCharCountRef, painted |-> painted,
   rec |-> rec,
   deferredStarts |-> deferredStarts,
   flowerResourcesPromise |-> flowerResourcesPromise,
   awaitingOverflow |-> awaitingOverflow,
   transitionRunning |-> transitionRunning, silenceStale |-> silenceStale,
   heard |-> heard,
   automaticRestarts |-> automaticRestarts, suspended |-> suspended,
   leaked |-> leaked, lastStart |-> lastStart, lastError |-> lastError,
   finalizeOk |-> finalizeOk, lastResult |-> lastResult,
   lastPoll |-> lastPoll, loud |-> loud, storage |-> storage,
   installed |-> installed, overflowed |-> overflowed, fetches |-> fetches, memoized |-> memoized,
   delivered |-> delivered, served |-> served]

Becomes(s) ==
  /\ status' = s.status /\ text' = s.text /\ fadePhase' = s.fadePhase
  /\ pStatus' = s.pStatus /\ pText' = s.pText /\ pTextSet' = s.pTextSet
  /\ pFadePhase' = s.pFadePhase /\ dirty' = s.dirty
  /\ pWatchdog' = s.pWatchdog
  /\ recognitionRef' = s.recognitionRef
  /\ recognitionActiveRef' = s.recognitionActiveRef
  /\ pendingRecognitionStartRef' = s.pendingRecognitionStartRef
  /\ statusRef' = s.statusRef /\ textRef' = s.textRef
  /\ silenceTimerRef' = s.silenceTimerRef
  /\ collectedTranscriptsRef' = s.collectedTranscriptsRef
  /\ resultTimerRef' = s.resultTimerRef
  /\ resultTranscript' = s.resultTranscript
  /\ recognitionRetryCountRef' = s.recognitionRetryCountRef
  /\ recognitionRestartTimeoutRef' = s.recognitionRestartTimeoutRef
  /\ volumeCheckIntervalRef' = s.volumeCheckIntervalRef
  /\ statusWatchdogRef' = s.statusWatchdogRef
  /\ pendingTranscriptRef' = s.pendingTranscriptRef
  /\ newTextAnimationRef' = s.newTextAnimationRef
  /\ animationFrameRef' = s.animationFrameRef
  /\ idleTimer' = s.idleTimer /\ passWaiting' = s.passWaiting
  /\ frames' = s.frames /\ frameLive' = s.frameLive
  /\ previousCharCountRef' = s.previousCharCountRef
  /\ painted' = s.painted
  /\ rec' = s.rec /\ deferredStarts' = s.deferredStarts
  /\ flowerResourcesPromise' = s.flowerResourcesPromise
  /\ awaitingOverflow' = s.awaitingOverflow
  /\ transitionRunning' = s.transitionRunning
  /\ silenceStale' = s.silenceStale
  /\ heard' = s.heard /\ automaticRestarts' = s.automaticRestarts
  /\ suspended' = s.suspended /\ leaked' = s.leaked
  /\ lastStart' = s.lastStart /\ lastError' = s.lastError
  /\ finalizeOk' = s.finalizeOk /\ lastResult' = s.lastResult
  /\ lastPoll' = s.lastPoll /\ loud' = s.loud
  /\ storage' = s.storage /\ installed' = s.installed
  /\ overflowed' = s.overflowed
  /\ fetches' = s.fetches /\ memoized' = s.memoized
  /\ delivered' = s.delivered /\ served' = s.served

(***************************************************************************)
(* React state setters.  An update that leaves the state as it is while    *)
(* nothing is queued schedules no render (eager bail-out).                 *)
(***************************************************************************)
setStatus(s, v) ==
  [s EXCEPT !.pStatus = v, !.dirty = s.dirty \/ v # s.status,
            !.pWatchdog = FALSE]

\* setStatus((current) => (current === "listening" ? "idle" : current))
setStatusIdleIfListening(s) ==
  setStatus(s, IF s.pStatus = "listening" THEN "idle" ELSE s.pStatus)

setFadePhase(s, v) ==
  [s EXCEPT !.pFadePhase = v, !.dirty = s.dirty \/ v # s.fadePhase]

\* setText(() => { textRef.current = v; return v; }): the updater runs at
\* the render, and at once when the component has no work queued
setText(s, v) ==
  [s EXCEPT !.pText = v, !.pTextSet = TRUE, !.dirty = TRUE,
            !.textRef = IF s.dirty THEN s.textRef ELSE v]

(***************************************************************************)
(* Timers: setTimeout into a handle that still names an armed timer leaks  *)
(* that timer.                                                             *)
(***************************************************************************)
Leak(s, kind, handle) ==
  IF handle # Off THEN [s EXCEPT !.leaked = s.leaked \cup {kind}] ELSE s

clearResultTimer(s) ==
  IF s.resultTimerRef # Off
  THEN [s EXCEPT !.resultTimerRef = Off, !.resultTranscript = <<>>]
  ELSE s


(***************************************************************************)
(* The recognizer (Web Speech API).  An instance is free (not constructed) *)
(* or inactive, running, stopping (stop() was called, results may still    *)
(* come) or errored (the error event was delivered, end is still to come). *)
(***************************************************************************)
REC_STATES == {"free", "inactive", "running", "stopping", "errored"}

InSession(st) == st \in {"running", "stopping", "errored"}

\* recognition.stop(): ends the capture of a running session
recStop(s) ==
  IF s.rec[s.recognitionRef] = "running"
  THEN [s EXCEPT !.rec[s.recognitionRef] = "stopping"]
  ELSE s

FreeIds(s) == {i \in InstanceIds : s.rec[i] = "free"}

\* new SpeechRecognition() with its handlers (lines 387-476)
createRecognition(s) ==
  LET id == CHOOSE i \in FreeIds(s) : \A j \in FreeIds(s) : i <= j
  IN [s EXCEPT !.recognitionRef = id, !.rec[id] = "inactive"]

(***************************************************************************)
(* loadFlowerResources (part_003 lines 19-95): the loader runs when no     *)
(* promise is memoized; every caller gets the memoized promise.            *)
(***************************************************************************)
\* a faulty cache: every call runs the loader again
loadFlowerResourcesUnmemoized(s) ==
  [s EXCEPT !.fetches = @ + 1, !.memoized = s.fetches + 1,
            !.flowerResourcesPromise =
               IF @ = "null" THEN "loading" ELSE @]

loadFlowerResources(s) ==
  IF s.flowerResourcesPromise = "null"
  THEN [s EXCEPT !.flowerResourcesPromise = "loading",
                 !.fetches = @ + 1, !.memoized = s.fetches + 1]
  ELSE s

\* a caller receives what the promise it was given resolved to
receiveResources(s) == [s EXCEPT !.delivered = @ \cup {s.memoized}]

\* setText(() => { textRef.current = v; return v; }) as the handlers call
\* it, noting what was installed over which list
install(s, by, utterance, v) ==
  setText([s EXCEPT !.installed =
                       Append(@, [by |-> by, base |-> s.pText,
                                  utterance |-> utterance, list |-> v])],
          v)

(***************************************************************************)
(* handleTranscript (lines 220-263), in two parts around the await.        *)
(***************************************************************************)
\* lines 235-256: after willTextOverflow(candidate) resolved
handleTranscriptResume(s, candidate) ==
  LET transcript == candidate[Len(candidate)]
  IN IF willTextOverflow(FlowerShape, Canvas2D, candidate)
     THEN setStatus(
            setFadePhase([s EXCEPT !.pendingTranscriptRef = transcript,
                                   !.overflowed = transcript], "out"),
            "clearing")
     ELSE setStatus(
            setFadePhase(
              install([s EXCEPT !.pendingTranscriptRef = <<>>,
                                !.previousCharCountRef =
                                   Len(JoinSp(s.textRef)),
                                !.newTextAnimationRef =
                                   [active |-> TRUE, startTime |-> "null"]],
                      "append", transcript, candidate),
              "idle"),
            "rendering")

\* lines 257-260: willTextOverflow rejected
handleTranscriptCatch(s) == setStatus(s, "idle")

\* lines 222-233: up to the await; the memoized promise decides whether the
\* call goes on at once, fails at once or is suspended
handleTranscript(s, transcript) ==
  LET s0 == clearResultTimer(s)
  IN IF transcript = <<>> THEN setStatus(s0, "idle")
     ELSE LET candidate == s0.textRef \o <<transcript>>
              s1 == loadFlowerResources(s0)
          IN CASE s1.flowerResourcesPromise = "loaded" ->
                    handleTranscriptResume(receiveResources(s1), candidate)
               [] s1.flowerResourcesPromise = "failed" ->
                    handleTranscriptCatch(s1)
               [] OTHER ->
                    [s1 EXCEPT !.awaitingOverflow = Append(@, candidate)]

\* what the specification says an utterance is: the segments joined by
\* single spaces
RECURSIVE SpaceJoined(_)
SpaceJoined(segments) ==
  IF segments = <<>> THEN <<>>
  ELSE IF Len(segments) = 1 THEN segments[1]
  ELSE segments[1] \o <<" ">> \o SpaceJoined(Tail(segments))

(***************************************************************************)
(* finalizeRecognition (lines 269-303).                                    *)
(***************************************************************************)
finalizeRecognition(s) ==
  LET fullTranscript == Trim(JoinSp(s.collectedTranscriptsRef))
      s1 == [s EXCEPT !.silenceTimerRef = Off,
                      !.collectedTranscriptsRef = <<>>,
                      !.heard = <<>>,
                      !.finalizeOk = @ /\ fullTranscript = SpaceJoined(s.heard)]
      s2 == IF fullTranscript # <<>>
            THEN LET c == clearResultTimer(setStatus(s1, "done"))
                 IN [c EXCEPT !.resultTimerRef = RESULT_DISPLAY_DELAY_MS,
                              !.resultTranscript = fullTranscript]
            ELSE setStatus(s1, "idle")
  IN IF s2.recognitionRef # 0 /\ s2.recognitionActiveRef
     THEN recStop(s2)
     ELSE s2

(***************************************************************************)
(* resetSilenceTimer (lines 309-318).                                      *)
(***************************************************************************)
resetSilenceTimer(s) ==
  LET s1 == IF s.silenceTimerRef # Off
            THEN [s EXCEPT !.silenceTimerRef = Off]
            ELSE s
  IN [Leak(s1, "silence", s1.silenceTimerRef)
        EXCEPT !.silenceTimerRef = SILENCE_TIMEOUT_MS,
               !.silenceStale = FALSE]

(***************************************************************************)
(* requestRecognitionRestart (lines 324-360).                              *)
(***************************************************************************)
requestRecognitionRestart(s) ==
  LET s1 == [s EXCEPT !.recognitionRestartTimeoutRef = Off]
  IN IF s1.recognitionRetryCountRef >= RECOGNITION_MAX_RETRIES
     THEN [s1 EXCEPT !.recognitionRetryCountRef = 0,
                     !.recognitionRestartTimeoutRef = Off,
                     !.suspended = TRUE]
     ELSE [s1 EXCEPT !.recognitionRetryCountRef = @ + 1,
                     !.pendingRecognitionStartRef = TRUE,
                     !.recognitionRestartTimeoutRef =
                        RECOGNITION_RESTART_DELAY_MS]

\* a faulty classification: a lost microphone keeps the instance
FatalErrorsWithoutAudioCapture == {"network", "not-allowed", "service-not-allowed"}

\* the errors after which onerror discards the instance (lines 437-442)
FatalErrors == {"network", "not-allowed", "service-not-allowed", "audio-capture"}

(***************************************************************************)
(* startListening (lines 362-494).  outcome is what recognizer.start()     *)
(* does on an instance that is in no session; on an instance that is in    *)
(* one it throws InvalidStateError.                                        *)
(***************************************************************************)
\* lines 378-493: the call passed the guard on the active flag
startSession(s, outcome) ==
  LET s1 == [s EXCEPT !.silenceTimerRef = Off,
                      !.collectedTranscriptsRef = <<>>,
                      !.heard = <<>>,
                      !.lastError = "none"]
      created == s1.recognitionRef = 0
      s2 == IF created THEN createRecognition(s1) ELSE s1
      id == s2.recognitionRef
  IN IF s2.rec[id] # "inactive"
     THEN \* InvalidStateError: already running
          [s2 EXCEPT !.recognitionActiveRef = FALSE,
                     !.lastStart = [result |-> "invalid", created |-> created]]
     ELSE IF outcome = "ok"
     THEN [s2 EXCEPT !.rec[id] = "running",
                     !.recognitionActiveRef = TRUE,
                     !.pendingRecognitionStartRef = FALSE,
                     !.recognitionRetryCountRef = 0,
                     !.suspended = FALSE,
                     !.lastStart = [result |-> "started", created |-> created]]
     ELSE requestRecognitionRestart(
            setStatus([s2 EXCEPT !.recognitionActiveRef = FALSE,
                                 !.lastStart = [result |-> "threw",
                                                created |-> created]],
                      "idle"))

\* startListening without the guard of lines 372-376
startListeningUnguarded(s, outcome) == startSession(s, outcome)

\* lines 362-376: a call while a session is active only sets the flag
startListening(s, outcome) ==
  IF s.recognitionActiveRef
  THEN [s EXCEPT !.pendingRecognitionStartRef = TRUE,
                 !.lastStart = [result |-> "deferred", created |-> FALSE]]
  ELSE startSession(s, outcome)

\* a start the component makes by itself (restart timer, deferred flag),
\* counted when it follows a fatal error
automaticStart(s, outcome) ==
  startListening(
    [s EXCEPT !.automaticRestarts =
                 IF ~s.recognitionActiveRef /\ s.lastError \in FatalErrors
                 THEN (IF @ > RECOGNITION_MAX_RETRIES THEN @ ELSE @ + 1)
                 ELSE @],
    outcome)

(***************************************************************************)
(* Handlers of the recognizer's events (lines 395-473).                    *)
(***************************************************************************)
onspeechstart(s) == resetSilenceTimer(setStatus(s, "listening"))

\* a faulty onresult: interim segments do not re-arm the silence timer
onresultFinalsOnly(s, isFinal, raw) ==
  LET transcript == Trim(raw)
  IN IF isFinal /\ transcript # <<>>
     THEN resetSilenceTimer(
            [s EXCEPT !.collectedTranscriptsRef = Append(@, transcript)])
     ELSE s

onresult(s, isFinal, raw) ==
  LET transcript == Trim(raw)
  IN IF isFinal /\ transcript # <<>>
     THEN resetSilenceTimer(
            [s EXCEPT !.collectedTranscriptsRef = Append(@, transcript)])
     ELSE IF ~isFinal /\ transcript # <<>>
     THEN resetSilenceTimer(s)
     ELSE s

onerror(s, error) ==
  IF error = "aborted"
  THEN setStatusIdleIfListening([s EXCEPT !.recognitionActiveRef = FALSE])
  ELSE LET s1 == [s EXCEPT !.recognitionActiveRef = FALSE]
           s2 == IF error = "no-speech"
                 THEN [s1 EXCEPT !.pendingRecognitionStartRef = TRUE]
                 ELSE s1
           s3 == IF error \in FatalErrors
                 THEN [s2 EXCEPT !.recognitionRef = 0]
                 ELSE s2
       IN requestRecognitionRestart(finalizeRecognition(s3))

onend(s) ==
  LET s1 == [s EXCEPT !.recognitionActiveRef = FALSE]
  IN IF Len(s1.collectedTranscriptsRef) > 0
     THEN finalizeRecognition(s1)
     ELSE LET s2 == setStatusIdleIfListening(s1)
          IN IF s2.pendingRecognitionStartRef /\ s2.statusRef = "idle"
             THEN [s2 EXCEPT !.pendingRecognitionStartRef = FALSE,
                             !.deferredStarts = @ + 1]
             ELSE s2


(***************************************************************************)
(* The render effect (lines 626-796).                                      *)
(***************************************************************************)
\* animationFrameRef.current = requestAnimationFrame(...) (line 743)
requestFrame(s) ==
  [s EXCEPT !.animationFrameRef = TRUE, !.frames = @ + 1,
            !.frameLive = TRUE]

\* a faulty cancel: the ref is cleared, the callback stays scheduled
cancelFrameForgets(s) ==
  [s EXCEPT !.animationFrameRef = FALSE, !.frameLive = FALSE]

\* if (animationFrameRef.current) { cancelAnimationFrame(...); ... = null }
\* (lines 633-636, 751-754, 786-790); cancelling a callback that has run
\* does nothing
cancelFrame(s) ==
  IF s.animationFrameRef
  THEN [s EXCEPT !.animationFrameRef = FALSE,
                 !.frames = IF s.frameLive THEN @ - 1 ELSE @,
                 !.frameLive = FALSE]
  ELSE s

\* drawFrame (lines 652-769) as far as it schedules: the new-text animation
\* (lines 687-694, 742-755) and the idle-settle timer (lines 758-768).
\* elapsed says whether NEW_TEXT_FADE_DURATION_MS have passed since
\* startTime, which the first frame of an animation sets to now
drawFrame(s0, elapsed) ==
  LET a == s0.newTextAnimationRef
      animates == Len(s0.text) > 0 /\ a.active
      progressDone == a.startTime = "set" /\ elapsed
      characters == JoinSp(s0.text)
      \* lines 673-737: the characters from previousCount on are painted at
      \* the alpha of the animation when it is active
      s == IF Len(s0.text) > 0
           THEN [s0 EXCEPT !.painted =
                   [text |-> TRUE, characters |-> Len(characters),
                    previousCount |->
                      IF s0.previousCharCountRef < Len(characters)
                      THEN s0.previousCharCountRef ELSE Len(characters),
                    fades |-> a.active]]
           ELSE s0
  IN IF animates /\ ~progressDone
     THEN requestFrame([s EXCEPT !.newTextAnimationRef.startTime = "set"])
     ELSE LET s1 == IF animates
                    THEN cancelFrame(
                           [s EXCEPT !.newTextAnimationRef =
                                        [active |-> FALSE,
                                         startTime |-> "null"],
                                     !.previousCharCountRef =
                                        Len(characters)])
                    ELSE s
          IN IF s1.status = "rendering"
                /\ ~s1.newTextAnimationRef.active
                /\ ~s1.animationFrameRef
             THEN [Leak(s1, "idle", s1.idleTimer)
                     EXCEPT !.idleTimer = RENDER_IDLE_DELAY_MS]
             ELSE s1

\* the catch of the render effect (lines 777-782)
renderCatch(s) ==
  IF s.status # "idle" THEN setStatus(s, "idle") ELSE s

\* the body of the render effect (lines 627-782)
renderEffect(s, elapsed) ==
  IF s.status # "idle" /\ s.status # "rendering" THEN s
  ELSE LET s1 == loadFlowerResources(cancelFrame(s))
       IN CASE s1.flowerResourcesPromise = "loaded" ->
                 drawFrame(receiveResources(s1), elapsed)
            [] s1.flowerResourcesPromise = "failed" -> renderCatch(s1)
            [] OTHER -> [s1 EXCEPT !.passWaiting = TRUE]

\* the cleanup of the render effect (lines 784-795)
renderCleanup(s) ==
  [cancelFrame(s) EXCEPT !.passWaiting = FALSE, !.idleTimer = Off]

(***************************************************************************)
(* The effects that depend on status (lines 88-90, 561-621).               *)
(***************************************************************************)
\* volume monitor effect, body (lines 562-577): clears an interval that is
\* still armed, then arms the poll
volumeEffect(s) ==
  IF s.status = "idle"
  THEN LET s1 == IF s.volumeCheckIntervalRef
                 THEN [s EXCEPT !.volumeCheckIntervalRef = FALSE]
                 ELSE s
       IN [(IF s1.volumeCheckIntervalRef
            THEN [s1 EXCEPT !.leaked = @ \cup {"volume"}] ELSE s1)
             EXCEPT !.volumeCheckIntervalRef = TRUE]
  ELSE s

\* a faulty cleanup: the interval is left armed
volumeCleanupKeeps(s) == s

\* volume monitor effect, cleanup (lines 579-585)
volumeCleanup(s) == [s EXCEPT !.volumeCheckIntervalRef = FALSE]

\* deferred start effect (lines 589-598)
deferredStartEffect(s, outcome) ==
  IF s.status = "idle" /\ s.pendingRecognitionStartRef
     /\ ~s.recognitionActiveRef
  THEN automaticStart([s EXCEPT !.pendingRecognitionStartRef = FALSE], outcome)
  ELSE s

\* status watchdog effect (lines 600-621); its cleanup clears the same timer
watchdogEffect(s) ==
  LET s1 == [s EXCEPT !.statusWatchdogRef = Off]
  IN IF s1.status = "idle" THEN s1
     ELSE [s1 EXCEPT !.statusWatchdogRef = RENDER_IDLE_WATCHDOG_MS]

\* the callback of the watchdog (lines 610-613)
watchdogFired(s) ==
  [setStatus(s, "idle") EXCEPT !.pWatchdog = TRUE, !.statusWatchdogRef = Off]

(***************************************************************************)
(* handleCanvasTransitionEnd (lines 802-823), with the fadePhase of the    *)
(* render that attached it.                                                *)
(***************************************************************************)
handleCanvasTransitionEnd(s) ==
  IF s.fadePhase = "out"
  THEN LET pending == s.pendingTranscriptRef
           nextText == IF pending # <<>> THEN <<pending>> ELSE <<>>
       IN setStatus(
            setFadePhase(
              install([s EXCEPT !.pendingTranscriptRef = <<>>,
                                !.previousCharCountRef = 0,
                                !.newTextAnimationRef =
                                   [active |-> TRUE, startTime |-> "null"]],
                      "reset", pending, nextText),
              "in"),
            "rendering")
  ELSE IF s.fadePhase = "in" THEN setFadePhase(s, "idle")
  ELSE s

(***************************************************************************)
(* One React render: commit of the queued updates, then the cleanups and   *)
(* the bodies of the effects whose dependencies changed.                   *)
(***************************************************************************)
commitRender(s, outcome, elapsed) ==
  LET statusChanged == s.pStatus # s.status
      textChanged == s.pTextSet
      fadeChanged == s.pFadePhase # s.fadePhase
      passChanged == statusChanged \/ textChanged \/ fadeChanged
      opacityChanged == (s.fadePhase = "out") # (s.pFadePhase = "out")
      c == [s EXCEPT !.status = s.pStatus, !.text = s.pText,
                     !.fadePhase = s.pFadePhase, !.dirty = FALSE,
                     !.pTextSet = FALSE, !.pWatchdog = FALSE,
                     !.transitionRunning = @ \/ opacityChanged]
      \* cleanups of the previous render's effects
      c1 == IF statusChanged /\ s.status = "idle" THEN volumeCleanup(c) ELSE c
      c2 == IF passChanged /\ s.status \in {"idle", "rendering"}
            THEN renderCleanup(c1) ELSE c1
      \* effects, in declaration order
      c3 == [c2 EXCEPT !.textRef = IF textChanged THEN c.text ELSE @,
                       !.storage = IF textChanged THEN persistText(c.text)
                                   ELSE @,
                       !.statusRef = c.status]
      c4 == IF statusChanged THEN volumeEffect(c3) ELSE c3
      c5 == IF statusChanged THEN deferredStartEffect(c4, outcome) ELSE c4
      c6 == IF statusChanged THEN watchdogEffect(c5) ELSE c5
  IN IF passChanged THEN renderEffect(c6, elapsed) ELSE c6


(***************************************************************************)
(* Initial state: the component is mounted and its effects have run once:  *)
(* the poll is armed (status is idle) and the render effect has requested  *)
(* the shape resource.                                                     *)
(***************************************************************************)
\* no text was painted
NoFrame == [text |-> FALSE, characters |-> 0, previousCount |-> 0,
            fades |-> FALSE]

NoStart == [result |-> "none", created |-> FALSE]

(***************************************************************************)
(* The audio graph (lines 99-197 and 507-556).  Its state is one record,   *)
(* as the component's is.                                                  *)
(***************************************************************************)
StreamIds == 1..MaxStreams
ContextIds == 1..MaxContexts

audioVars ==
  <<mounted, micStreamRef, tracks, audioContextRef, contexts, analyserRef,
    audioHealthIntervalRef, audioRecoveryTimeoutRef,
    audioHealthCheckRunningRef, acquiring, resuming, recoveryTimers,
    audioStep, rebuilds>>

AudioCur ==
  [mounted |-> mounted, micStreamRef |-> micStreamRef, tracks |-> tracks,
   audioContextRef |-> audioContextRef, contexts |-> contexts,
   analyserRef |-> analyserRef,
   audioHealthIntervalRef |-> audioHealthIntervalRef,
   audioRecoveryTimeoutRef |-> audioRecoveryTimeoutRef,
   audioHealthCheckRunningRef |-> audioHealthCheckRunningRef,
   acquiring |-> acquiring, resuming |-> resuming,
   recoveryTimers |-> recoveryTimers,
   audioStep |-> audioStep, rebuilds |-> rebuilds]

AudioBecomes(a) ==
  /\ mounted' = a.mounted /\ micStreamRef' = a.micStreamRef
  /\ tracks' = a.tracks /\ audioContextRef' = a.audioContextRef
  /\ contexts' = a.contexts /\ analyserRef' = a.analyserRef
  /\ audioHealthIntervalRef' = a.audioHealthIntervalRef
  /\ audioRecoveryTimeoutRef' = a.audioRecoveryTimeoutRef
  /\ audioHealthCheckRunningRef' = a.audioHealthCheckRunningRef
  /\ acquiring' = a.acquiring /\ resuming' = a.resuming
  /\ recoveryTimers' = a.recoveryTimers
  /\ audioStep' = a.audioStep /\ rebuilds' = a.rebuilds

AudioIs(a) ==
  /\ mounted = a.mounted /\ micStreamRef = a.micStreamRef
  /\ tracks = a.tracks /\ audioContextRef = a.audioContextRef
  /\ contexts = a.contexts /\ analyserRef = a.analyserRef
  /\ audioHealthIntervalRef = a.audioHealthIntervalRef
  /\ audioRecoveryTimeoutRef = a.audioRecoveryTimeoutRef
  /\ audioHealthCheckRunningRef = a.audioHealthCheckRunningRef
  /\ acquiring = a.acquiring /\ resuming = a.resuming
  /\ recoveryTimers = a.recoveryTimers
  /\ audioStep = a.audioStep /\ rebuilds = a.rebuilds

\* disposeAudioResources (lines 99-110): track.stop() fires no ended event
disposeAudioResources(a) ==
  LET a1 == IF a.micStreamRef # 0
            THEN [a EXCEPT !.tracks[a.micStreamRef] =
                              IF @ = "live" THEN "stopped" ELSE @,
                           !.micStreamRef = 0]
            ELSE a
      a2 == IF a1.audioContextRef # 0
            THEN [a1 EXCEPT !.contexts[a1.audioContextRef] = "closed",
                            !.audioContextRef = 0]
            ELSE a1
  IN [a2 EXCEPT !.analyserRef = "null"]

\* reinitializeAudioMonitoring up to its await (lines 143-146); by is who
\* awaits the call: the mount effect, the health check, or nobody (the
\* recovery timeout)
reinitializeAudioMonitoring(a, by) ==
  [disposeAudioResources(a) EXCEPT !.acquiring = Append(@, by),
                                   !.rebuilds = @ + 1]

\* a stream or a context nobody holds any more can stand for a new one
FreeStreams(a) ==
  {i \in StreamIds : a.tracks[i] # "live" /\ i # a.micStreamRef}

FreeContexts(a) ==
  {c \in ContextIds : a.contexts[c] \in {"none", "closed"}
                        /\ c # a.audioContextRef /\ c # a.resuming}

\* what getUserMedia and the steps after it may do
AcquireOutcomes == {"rejected", "contextThrows", "sourceThrows", "ok"}

\* reinitializeAudioMonitoring from its await on (lines 146-176): the
\* stream is stored and its track gets the ended handler, then the context
\* and the analyser are made and stored, then the microphone is connected;
\* an exception at any step is logged and ends the call
rebuildAudio(a, outcome, startsAs) ==
  IF outcome = "rejected" THEN a
  ELSE LET id == CHOOSE i \in FreeStreams(a) :
                   \A j \in FreeStreams(a) : i <= j
           a1 == [a EXCEPT !.micStreamRef = id, !.tracks[id] = "live"]
       IN IF outcome = "contextThrows" THEN a1
          ELSE LET c == CHOOSE x \in FreeContexts(a1) :
                          \A y \in FreeContexts(a1) : x <= y
                   a2 == [a1 EXCEPT !.audioContextRef = c,
                                    !.contexts[c] = startsAs,
                                    !.analyserRef = "unconnected"]
               IN IF outcome = "sourceThrows" THEN a2
                  ELSE [a2 EXCEPT !.analyserRef = "connected"]

\* the finally block of performHealthCheck (lines 540-542)
releaseGuard(a) == [a EXCEPT !.audioHealthCheckRunningRef = FALSE]

\* the call of reinitializeAudioMonitoring returns to who awaited it
acquired(a, by, outcome, startsAs) ==
  LET a1 == rebuildAudio(a, outcome, startsAs)
  IN IF by = "health" THEN releaseGuard(a1) ELSE a1

\* a faulty check: a tick starts a check while one is under way
performHealthCheckUnguarded(a) ==
  LET b == [a EXCEPT !.audioHealthCheckRunningRef = TRUE]
      hasLiveTrack == b.micStreamRef # 0 /\ b.tracks[b.micStreamRef] = "live"
  IN IF ~hasLiveTrack
     THEN reinitializeAudioMonitoring([b EXCEPT !.audioStep = "tick"],
                                      "health")
     ELSE IF b.audioContextRef # 0
               /\ b.contexts[b.audioContextRef] = "suspended"
     THEN [b EXCEPT !.resuming = b.audioContextRef, !.audioStep = "tick"]
     ELSE releaseGuard([b EXCEPT !.audioStep = "tick"])

\* performHealthCheck up to its first await (lines 508-539)
performHealthCheck(a) ==
  IF a.audioHealthCheckRunningRef THEN [a EXCEPT !.audioStep = "skipped"]
  ELSE LET b == [a EXCEPT !.audioHealthCheckRunningRef = TRUE,
                          !.audioStep = "tick"]
           hasLiveTrack ==
             b.micStreamRef # 0 /\ b.tracks[b.micStreamRef] = "live"
       IN IF ~hasLiveTrack THEN reinitializeAudioMonitoring(b, "health")
          ELSE IF b.audioContextRef # 0
                    /\ b.contexts[b.audioContextRef] = "suspended"
          THEN [b EXCEPT !.resuming = b.audioContextRef]
          ELSE releaseGuard(b)

\* await audioContextRef.current.resume() settles (lines 529-538)
resumed(a, ok) ==
  LET b == [a EXCEPT !.resuming = 0]
  IN IF ok THEN releaseGuard([b EXCEPT !.contexts[a.resuming] = "running"])
     ELSE reinitializeAudioMonitoring(b, "health")

\* a faulty handler: every ended event arms a timeout
onendedUncoalesced(a) ==
  [a EXCEPT !.audioRecoveryTimeoutRef = TRUE, !.recoveryTimers = @ + 1]

\* track.onended (lines 151-160)
onended(a) ==
  IF a.audioRecoveryTimeoutRef THEN [a EXCEPT !.audioStep = "coalesced"]
  ELSE [a EXCEPT !.audioRecoveryTimeoutRef = TRUE, !.recoveryTimers = @ + 1]

\* the callback of the recovery timeout (lines 156-159)
recover(a) ==
  reinitializeAudioMonitoring(
    [a EXCEPT !.audioRecoveryTimeoutRef = FALSE, !.recoveryTimers = @ - 1],
    "recovery")

\* the audio graph after the mount effects (lines 503-505 and 544-547):
\* setupAudioMonitoring and the first performHealthCheck each wait for a
\* microphone stream, the health interval is armed
AudioMounted ==
  [mounted |-> TRUE, micStreamRef |-> 0,
   tracks |-> [i \in StreamIds |-> "none"],
   audioContextRef |-> 0, contexts |-> [c \in ContextIds |-> "none"],
   analyserRef |-> "null", audioHealthIntervalRef |-> TRUE,
   audioRecoveryTimeoutRef |-> FALSE, audioHealthCheckRunningRef |-> TRUE,
   acquiring |-> <<"setup", "health">>, resuming |-> 0,
   recoveryTimers |-> 0, audioStep |-> "none", rebuilds |-> 0]

\* the state an audio step starts from
AudioBegin == [AudioCur EXCEPT !.audioStep = "none", !.rebuilds = 0]

\* no call of willTextOverflow
NoProbe == [called |-> FALSE, items |-> <<>>, available |-> FALSE,
            result |-> FALSE]

\* the variables of the calls of willTextOverflow on their own
NoDrawing == [called |-> FALSE, items |-> <<>>, filled |-> <<>>]

layoutVars ==
  <<layoutResources, layoutFont, probe, earlier, canvasLines, drawn>>

\* the component after its first render and its effects, with the item the
\* browser holds under the key "flowerText": the poll is armed (status is
\* idle) and the render effect has requested the shape resource
InitialState(item) ==
  [status |-> "idle",
   text |-> restoreText(item),
   fadePhase |-> "idle",
   pStatus |-> "idle",
   pText |-> restoreText(item),
   pTextSet |-> FALSE,
   pFadePhase |-> "idle",
   dirty |-> FALSE,
   pWatchdog |-> FALSE,
   recognitionRef |-> 0,
   recognitionActiveRef |-> FALSE,
   pendingRecognitionStartRef |-> FALSE,
   statusRef |-> "idle",
   textRef |-> restoreText(item),
   silenceTimerRef |-> Off,
   collectedTranscriptsRef |-> <<>>,
   resultTimerRef |-> Off,
   resultTranscript |-> <<>>,
   recognitionRetryCountRef |-> 0,
   recognitionRestartTimeoutRef |-> Off,
   volumeCheckIntervalRef |-> TRUE,
   statusWatchdogRef |-> Off,
   pendingTranscriptRef |-> <<>>,
   newTextAnimationRef |-> [active |-> FALSE, startTime |-> "null"],
   animationFrameRef |-> FALSE,
   idleTimer |-> Off,
   passWaiting |-> TRUE,
   frames |-> 0,
   frameLive |-> FALSE,
   previousCharCountRef |-> 0,
   painted |-> NoFrame,
   rec |-> [i \in InstanceIds |-> "free"],
   deferredStarts |-> 0,
   flowerResourcesPromise |-> "loading",
   awaitingOverflow |-> <<>>,
   transitionRunning |-> FALSE,
   silenceStale |-> FALSE,
   heard |-> <<>>,
   automaticRestarts |-> 0,
   suspended |-> FALSE,
   leaked |-> {},
   lastStart |-> NoStart,
   lastResult |-> "none",
   lastError |-> "none",
   finalizeOk |-> TRUE,
   lastPoll |-> "none",
   loud |-> FALSE,
   storage |-> persistText(restoreText(item)),
   installed |-> <<>>,
   overflowed |-> <<>>,
   fetches |-> 1,
   memoized |-> 1,
   delivered |-> {},
   served |-> 0]

\* the state is the one the record describes
IsState(s) ==
  /\ status = s.status /\ text = s.text /\ fadePhase = s.fadePhase
  /\ pStatus = s.pStatus /\ pText = s.pText /\ pTextSet = s.pTextSet
  /\ pFadePhase = s.pFadePhase /\ dirty = s.dirty
  /\ pWatchdog = s.pWatchdog
  /\ recognitionRef = s.recognitionRef
  /\ recognitionActiveRef = s.recognitionActiveRef
  /\ pendingRecognitionStartRef = s.pendingRecognitionStartRef
  /\ statusRef = s.statusRef /\ textRef = s.textRef
  /\ silenceTimerRef = s.silenceTimerRef
  /\ collectedTranscriptsRef = s.collectedTranscriptsRef
  /\ resultTimerRef = s.resultTimerRef
  /\ resultTranscript = s.resultTranscript
  /\ recognitionRetryCountRef = s.recognitionRetryCountRef
  /\ recognitionRestartTimeoutRef = s.recognitionRestartTimeoutRef
  /\ volumeCheckIntervalRef = s.volumeCheckIntervalRef
  /\ statusWatchdogRef = s.statusWatchdogRef
  /\ pendingTranscriptRef = s.pendingTranscriptRef
  /\ newTextAnimationRef = s.newTextAnimationRef
  /\ animationFrameRef = s.animationFrameRef
  /\ idleTimer = s.idleTimer /\ passWaiting = s.passWaiting
  /\ frames = s.frames /\ frameLive = s.frameLive
  /\ previousCharCountRef = s.previousCharCountRef
  /\ painted = s.painted
  /\ rec = s.rec /\ deferredStarts = s.deferredStarts
  /\ flowerResourcesPromise = s.flowerResourcesPromise
  /\ awaitingOverflow = s.awaitingOverflow
  /\ transitionRunning = s.transitionRunning
  /\ silenceStale = s.silenceStale
  /\ heard = s.heard /\ automaticRestarts = s.automaticRestarts
  /\ suspended = s.suspended /\ leaked = s.leaked
  /\ lastStart = s.lastStart /\ lastError = s.lastError
  /\ finalizeOk = s.finalizeOk /\ lastResult = s.lastResult
  /\ lastPoll = s.lastPoll /\ loud = s.loud
  /\ storage = s.storage /\ installed = s.installed
  /\ overflowed = s.overflowed
  /\ fetches = s.fetches /\ memoized = s.memoized
  /\ delivered = s.delivered /\ served = s.served

Mounted == IsState(InitialState(NoItem))

Init ==
  /\ Mounted
  /\ layoutResources = FlowerShape /\ layoutFont = CharWidth
  /\ canvasLines = FlowerShape
  /\ probe = NoProbe /\ earlier = NoProbe /\ drawn = NoDrawing
  /\ AudioIs(AudioMounted)

\* the state an action starts from, and the state it leaves
Begin ==
  [Cur EXCEPT !.lastStart = NoStart, !.lastResult = "none",
              !.lastPoll = "none", !.installed = <<>>,
              !.painted = NoFrame]

\* the successor is computed once, then assigned
Does(s) ==
  /\ \E t \in {s} : Becomes(t)
  /\ UNCHANGED layoutVars
  /\ AudioBecomes(AudioBegin)

(***************************************************************************)
(* Actions: React.                                                         *)
(***************************************************************************)
Render ==
  /\ dirty
  /\ \E outcome \in StartOutcomes, elapsed \in BOOLEAN :
       Does(commitRender(Begin, outcome, elapsed))

(***************************************************************************)
(* Actions: timers.                                                        *)
(***************************************************************************)
\* no render and no zero-delay task is waiting to run
NothingDue == ~dirty /\ deferredStarts = 0

\* the silence timer's callback (lines 315-317)
SilenceTimerFire ==
  /\ NothingDue
  /\ silenceTimerRef # Off
  /\ Does(finalizeRecognition(Begin))

\* the result timer's callback (lines 284-287)
ResultTimerFire ==
  /\ NothingDue
  /\ resultTimerRef # Off
  /\ flowerResourcesPromise = "loading" => Len(awaitingOverflow) < MaxAwaiting
  /\ Does(handleTranscript(Begin, resultTranscript))

\* the restart timer's callback (lines 343-357)
restartTimerFired(s, outcome) ==
  LET s1 == [s EXCEPT !.recognitionRestartTimeoutRef = Off]
  IN IF s1.statusRef = "idle" /\ ~s1.recognitionActiveRef
     THEN automaticStart(s1, outcome)
     ELSE [s1 EXCEPT !.pendingRecognitionStartRef = TRUE]

RestartTimerFire ==
  /\ NothingDue
  /\ recognitionRestartTimeoutRef # Off
  /\ \E outcome \in StartOutcomes : Does(restartTimerFired(Begin, outcome))

WatchdogFire ==
  /\ NothingDue
  /\ statusWatchdogRef # Off
  /\ Does(watchdogFired(Begin))

\* the idle-settle timer's callback (lines 763-766)
IdleTimerFire ==
  /\ NothingDue
  /\ idleTimer # Off
  /\ Does(setStatus([Begin EXCEPT !.idleTimer = Off], "idle"))

\* setTimeout(() => startListening(), 0) of onend (lines 469-471)
DeferredStart ==
  /\ ~dirty
  /\ deferredStarts > 0
  /\ \E outcome \in StartOutcomes :
       Does(automaticStart([Begin EXCEPT !.deferredStarts = @ - 1], outcome))

\* a faulty reading: a missing analyser reads as full scale
getCurrentVolumeFullScale(analyser, reading) ==
  IF ~analyser THEN 100 ELSE reading

\* getCurrentVolume (lines 199-213): reading is the mean of the frequency
\* data over 255, in hundredths
getCurrentVolume(analyser, reading) ==
  IF ~analyser THEN 0 ELSE reading

\* a faulty gate: a reading equal to the threshold does not trigger
volumeTickStrict(s, volume, outcome) ==
  IF volume > VOLUME_THRESHOLD
  THEN startListening([s EXCEPT !.volumeCheckIntervalRef = FALSE,
                                !.automaticRestarts = 0], outcome)
  ELSE s

\* the interval callback of the volume monitor (lines 568-577)
volumeTick(s, volume, outcome) ==
  IF volume >= VOLUME_THRESHOLD
  THEN startListening([s EXCEPT !.volumeCheckIntervalRef = FALSE,
                                !.automaticRestarts = 0], outcome)
  ELSE s

\* how the sound at the microphone compares with the threshold
Sampled(analyser, reading) ==
  IF ~analyser THEN "missing"
  ELSE IF reading < VOLUME_THRESHOLD THEN "below"
  ELSE IF reading = VOLUME_THRESHOLD THEN "equal"
  ELSE "above"

\* a tick of the volume monitor with the analyser there or not and the
\* readings the microphone may give
PollTickOf(analyser, readings) ==
  /\ NothingDue
  /\ volumeCheckIntervalRef
  /\ \E reading \in readings, outcome \in StartOutcomes :
       Does(volumeTick(
              [Begin EXCEPT
                 !.lastPoll = Sampled(analyser, reading),
                 !.loud = @ \/ (analyser /\ reading >= VOLUME_THRESHOLD)],
              getCurrentVolume(analyser, reading), outcome))

PollTick == \E analyser \in BOOLEAN : PollTickOf(analyser, Volumes)

\* the requestAnimationFrame callback (line 743)
FrameFire ==
  /\ NothingDue
  /\ frames > 0
  /\ \E elapsed \in BOOLEAN :
       Does(drawFrame([Begin EXCEPT !.frames = @ - 1, !.frameLive = FALSE],
                      elapsed))

(***************************************************************************)
(* Actions: the canvas and the shape resource.                             *)
(***************************************************************************)
TransitionEnd ==
  /\ NothingDue
  /\ transitionRunning
  /\ Does(handleCanvasTransitionEnd([Begin EXCEPT !.transitionRunning = FALSE]))

\* flowerResourcesPromise settles; the continuations waiting on it run
\* the suspended handleTranscript calls go on in the order they were made
RECURSIVE resumeAwaiting(_)
resumeAwaiting(s) ==
  IF s.awaitingOverflow = <<>> THEN s
  ELSE resumeAwaiting(
         handleTranscriptResume(
           receiveResources([s EXCEPT !.awaitingOverflow = Tail(@)]),
           s.awaitingOverflow[1]))

resumePass(s) ==
  IF s.passWaiting
  THEN drawFrame(receiveResources([s EXCEPT !.passWaiting = FALSE]), FALSE)
  ELSE s

RECURSIVE rejectAwaiting(_)
rejectAwaiting(s) ==
  IF s.awaitingOverflow = <<>> THEN s
  ELSE rejectAwaiting(
         handleTranscriptCatch([s EXCEPT !.awaitingOverflow = Tail(@)]))

rejectPass(s) ==
  IF s.passWaiting THEN renderCatch([s EXCEPT !.passWaiting = FALSE]) ELSE s

LoadSucceed ==
  /\ NothingDue
  /\ flowerResourcesPromise = "loading"
  /\ \E passFirst \in BOOLEAN :
       LET s == [Begin EXCEPT
                   !.flowerResourcesPromise = "loaded",
                   !.served = Len(awaitingOverflow)
                                + (IF passWaiting THEN 1 ELSE 0)]
       IN Does(IF passFirst THEN resumeAwaiting(resumePass(s))
               ELSE resumePass(resumeAwaiting(s)))

LoadFail ==
  /\ NothingDue
  /\ flowerResourcesPromise = "loading"
  /\ Does(rejectPass(rejectAwaiting(
            [Begin EXCEPT !.flowerResourcesPromise = "failed"])))

(***************************************************************************)
(* Actions: events of the recognizer.                                      *)
(***************************************************************************)
OnSpeechStart(i) ==
  /\ rec[i] = "running"
  /\ Does(onspeechstart([Begin EXCEPT !.silenceStale = TRUE]))

OnResult(i, isFinal, raw) ==
  /\ rec[i] \in {"running", "stopping"}
  /\ isFinal /\ Trim(raw) # <<>> =>
       Len(heard) < MaxSegments /\ Trim(raw) = Spoken[(Len(heard) % Len(Spoken)) + 1]
  /\ Does(onresult(
            [Begin EXCEPT
               !.silenceStale = @ \/ Trim(raw) # <<>>,
               !.lastResult = IF Trim(raw) = <<>> THEN "empty"
                              ELSE IF isFinal THEN "final" ELSE "interim",
               !.heard = IF isFinal /\ Trim(raw) # <<>>
                         THEN Append(@, Trim(raw)) ELSE @],
            isFinal, raw))

OnError(i, error) ==
  /\ rec[i] \in {"running", "stopping"}
  /\ error \in FatalErrors => FreeIds(Cur) # {}
  /\ Does([onerror([Begin EXCEPT !.rec[i] = "errored"], error) EXCEPT
             !.lastError = error])

OnEnd(i) ==
  /\ InSession(rec[i])
  /\ LET s == onend([Begin EXCEPT
                       !.rec[i] = IF i = recognitionRef THEN "inactive"
                                  ELSE "free"])
     IN /\ s.deferredStarts <= MaxDeferredStarts
        /\ Does(s)

\* the whole exhibit
Next ==
  \/ Render
  \/ SilenceTimerFire
  \/ ResultTimerFire
  \/ RestartTimerFire
  \/ WatchdogFire
  \/ IdleTimerFire
  \/ DeferredStart
  \/ PollTick
  \/ FrameFire
  \/ TransitionEnd
  \/ LoadSucceed
  \/ LoadFail
  \/ \E i \in InstanceIds : OnSpeechStart(i)
  \/ \E i \in InstanceIds, isFinal \in BOOLEAN, raw \in RawTranscripts :
       OnResult(i, isFinal, raw)
  \/ \E i \in InstanceIds, error \in ErrorCodes : OnError(i, error)
  \/ \E i \in InstanceIds : OnEnd(i)

Spec == Init /\ [][Next]_vars

\* voice capture, up to the utterance that finalize emits: the volume gate,
\* the recognizer, the silence and restart timers, the watchdog and the
\* renders, while the display of the emitted utterance has not begun
CaptureNext ==
  \/ Render
  \/ SilenceTimerFire
  \/ RestartTimerFire
  \/ WatchdogFire
  \/ DeferredStart
  \/ PollTick
  \/ \E i \in InstanceIds : OnSpeechStart(i)
  \/ \E i \in InstanceIds, isFinal \in BOOLEAN, raw \in RawTranscripts :
       OnResult(i, isFinal, raw)
  \/ \E i \in InstanceIds, error \in ErrorCodes : OnError(i, error)
  \/ \E i \in InstanceIds : OnEnd(i)

CaptureSpec == Init /\ [][CaptureNext]_vars

\* React renders what is queued, a zero-delay timeout runs and an armed
\* watchdog expires; nothing else has to happen
CaptureFairSpec ==
  /\ CaptureSpec
  /\ WF_vars(Render) /\ WF_vars(DeferredStart) /\ WF_vars(WatchdogFire)

(***************************************************************************)
(* willTextOverflow on its own: the shape and the font are drawn at the    *)
(* start, every step is one call on a list, with or without a 2D context.  *)
(***************************************************************************)
Shapes ==
  { FlowerShape,
    << <<TRUE, TRUE, FALSE, TRUE, TRUE, TRUE>>,
       <<FALSE, TRUE, TRUE, TRUE, TRUE, FALSE>> >>,
    << <<TRUE, TRUE, TRUE, FALSE, FALSE>>, <<TRUE, TRUE, TRUE, TRUE, TRUE>> >>,
    << <<FALSE, FALSE, FALSE>> >>,
    << <<TRUE, TRUE, TRUE, FALSE>>, <<TRUE, FALSE, TRUE, TRUE>>,
       <<TRUE, TRUE, TRUE, TRUE>> >> }

Fonts ==
  { CharWidth,
    [ch \in DOMAIN CharWidth |-> IF ch \in {"an", "ha"} THEN 1 ELSE 3] }

ProbeLists ==
  { <<>>, <<ANNYEONG>>, <<HASEYO>>, <<ANNYEONG, ANNYEONG>>,
    <<ANNYEONG, HASEYO>>, <<HASEYO, ANNYEONG>>, << <<"an">> >>,
    << <<"an">>, <<"ha">>, <<"yo">> >>, << <<>> >>, << <<"se">>, <<>> >> }

\* the lines the draw path scans, given the lines willTextOverflow scans:
\* the same lines when flowerHeight (line 68 of part_003) is whole, and
\* lines up to a pixel above them when the assignment to canvas.height
\* drops a fraction, as many and as wide
AtCanvasHeight(shape) ==
  {shape} \cup
  {s \in Shapes : /\ Len(s) = Len(shape)
                  /\ \A k \in DOMAIN s : Len(s[k]) = Len(shape[k])}

LayoutInit ==
  /\ Mounted
  /\ layoutResources \in Shapes /\ layoutFont \in Fonts
  /\ canvasLines \in AtCanvasHeight(layoutResources)
  /\ probe = NoProbe /\ earlier = NoProbe /\ drawn = NoDrawing
  /\ AudioIs(AudioMounted)

CallWillTextOverflow(textItems, available) ==
  /\ probe' = [called |-> TRUE, items |-> textItems, available |-> available,
               result |-> willTextOverflow(
                            layoutResources,
                            [available |-> available, width |-> layoutFont],
                            textItems)]
  /\ earlier' = probe
  /\ UNCHANGED <<layoutResources, layoutFont, canvasLines, drawn>>
  /\ Becomes(Cur)
  /\ UNCHANGED audioVars

\* drawFrame draws the list text on the canvas
DrawText(textItems) ==
  /\ drawn' = [called |-> TRUE, items |-> textItems,
               filled |-> drawText(canvasLines, layoutFont, textItems)]
  /\ UNCHANGED <<layoutResources, layoutFont, canvasLines, probe, earlier>>
  /\ Becomes(Cur)
  /\ UNCHANGED audioVars

LayoutNext ==
  \/ \E textItems \in ProbeLists, available \in BOOLEAN :
       CallWillTextOverflow(textItems, available)
  \/ \E textItems \in ProbeLists : DrawText(textItems)

LayoutSpec == LayoutInit /\ [][LayoutNext]_vars

\* a working installation: the analyser is there, start() does not throw
\* and the recognizer delivers final segments
Working ==
  /\ lastPoll' \in {"none", "below", "equal"}
  /\ lastStart'.result # "threw"

\* the exhibit from the volume gate to the drawn text in a working
\* installation
DisplayNext ==
  \/ Render /\ Working
  \/ SilenceTimerFire /\ Working
  \/ ResultTimerFire /\ Working
  \/ WatchdogFire /\ Working
  \/ IdleTimerFire /\ Working
  \/ DeferredStart /\ Working
  \/ PollTick /\ Working
  \/ FrameFire /\ Working
  \/ TransitionEnd /\ Working
  \/ LoadSucceed /\ Working
  \/ LoadFail /\ Working
  \/ \E i \in InstanceIds : OnSpeechStart(i) /\ Working
  \/ \E i \in InstanceIds, raw \in {ANNYEONG, <<SP>> \o HASEYO} :
       OnResult(i, TRUE, raw) /\ Working
  \/ \E i \in InstanceIds : OnEnd(i) /\ Working

DisplaySpec == Init /\ [][DisplayNext]_vars

\* no timer with a shorter delay than the watchdog's is armed and no frame
\* or transition is under way: RENDER_IDLE_WATCHDOG_MS can pass undisturbed
OnlyWatchdogPending ==
  /\ silenceTimerRef = Off /\ resultTimerRef = Off
  /\ recognitionRestartTimeoutRef = Off /\ idleTimer = Off
  /\ frames = 0 /\ ~transitionRunning

\* the same exhibit with the watchdog expiring only after every shorter
\* timer has
PatientNext ==
  \/ Render /\ Working
  \/ SilenceTimerFire /\ Working
  \/ ResultTimerFire /\ Working
  \/ OnlyWatchdogPending /\ WatchdogFire /\ Working
  \/ IdleTimerFire /\ Working
  \/ DeferredStart /\ Working
  \/ PollTick /\ Working
  \/ FrameFire /\ Working
  \/ TransitionEnd /\ Working
  \/ LoadSucceed /\ Working
  \/ LoadFail /\ Working
  \/ \E i \in InstanceIds : OnSpeechStart(i) /\ Working
  \/ \E i \in InstanceIds, raw \in {ANNYEONG, <<SP>> \o HASEYO} :
       OnResult(i, TRUE, raw) /\ Working
  \/ \E i \in InstanceIds : OnEnd(i) /\ Working

PatientSpec == Init /\ [][PatientNext]_vars

(***************************************************************************)
(* The exhibit over page reloads.  The browser keeps the item under        *)
(* "flowerText" from one page load to the next; the page starts with what  *)
(* an earlier page load left there.                                        *)
(***************************************************************************)
\* lists an earlier page load left, with the characters JSON writes with
\* a backslash and the ones that delimit the serialized array
StoredLists ==
  { << <<Quote, "an", Quote>> >>,
    << <<"an", Backslash>>, <<"]", ",">> >> }

StoredItems == {NoItem} \cup {persistText(l) : l \in StoredLists}

PersistInit ==
  /\ \E item \in StoredItems : IsState(InitialState(item))
  /\ layoutResources = FlowerShape /\ layoutFont = CharWidth
  /\ canvasLines = FlowerShape
  /\ probe = NoProbe /\ earlier = NoProbe /\ drawn = NoDrawing
  /\ AudioIs(AudioMounted)

\* the page is loaded again: every state and ref starts over, the text from
\* the stored item (lines 32-35)
Reload == Does(InitialState(storage))

PersistNext ==
  \/ Render /\ Working
  \/ SilenceTimerFire /\ Working
  \/ ResultTimerFire /\ Working
  \/ OnlyWatchdogPending /\ WatchdogFire /\ Working
  \/ IdleTimerFire /\ Working
  \/ DeferredStart /\ Working
  \/ PollTick /\ Working
  \/ FrameFire /\ Working
  \/ TransitionEnd /\ Working
  \/ LoadSucceed /\ Working
  \/ LoadFail /\ Working
  \/ \E i \in InstanceIds : OnSpeechStart(i) /\ Working
  \/ \E i \in InstanceIds, raw \in {ANNYEONG, <<SP>> \o HASEYO} :
       OnResult(i, TRUE, raw) /\ Working
  \/ \E i \in InstanceIds : OnEnd(i) /\ Working
  \/ Reload /\ Working

PersistSpec == PersistInit /\ [][PersistNext]_vars

(***************************************************************************)
(* Actions: the audio graph.  A getUserMedia request or a resume() may     *)
(* settle at any time and in any order; a live track may end at any time.  *)
(***************************************************************************)
AudioDoes(a) ==
  /\ \E b \in {a} : AudioBecomes(b)
  /\ Becomes(Begin)
  /\ UNCHANGED layoutVars

Without(seq, k) == SubSeq(seq, 1, k - 1) \o SubSeq(seq, k + 1, Len(seq))

\* getUserMedia of the k-th call in flight settles
GetUserMediaSettles(k) ==
  /\ k \in 1..Len(acquiring)
  /\ \E outcome \in AcquireOutcomes, startsAs \in {"running", "suspended"} :
       LET a == [AudioBegin EXCEPT !.acquiring = Without(@, k),
                                   !.audioStep = "acquired"]
       IN /\ outcome # "rejected" => FreeStreams(a) # {}
          /\ outcome \in {"sourceThrows", "ok"} => FreeContexts(a) # {}
          /\ AudioDoes(acquired(a, acquiring[k], outcome, startsAs))

\* one more getUserMedia request fits the bound, the one a failing resume()
\* would make counted in
Room ==
  Len(acquiring) + (IF resuming # 0 THEN 1 ELSE 0) < MaxAcquiring

\* the interval of the health effect (lines 545-547)
HealthTick ==
  /\ audioHealthIntervalRef
  /\ Room
  /\ AudioDoes(performHealthCheck(AudioBegin))

ResumeSettles ==
  /\ resuming # 0
  /\ \E ok \in BOOLEAN :
       /\ ok => contexts[resuming] # "closed"
       /\ AudioDoes(resumed([AudioBegin EXCEPT !.audioStep = "resumed"], ok))

\* the microphone is unplugged or taken away: the track ends, its ended
\* event is dispatched
TrackEnded(id) ==
  /\ tracks[id] = "live"
  /\ AudioDoes(onended([AudioBegin EXCEPT !.tracks[id] = "ended",
                                          !.audioStep = "ended"]))

\* MIC_RECOVERY_BACKOFF_MS after the timeout was armed
RecoveryFire ==
  /\ recoveryTimers > 0
  /\ Room
  /\ AudioDoes(recover([AudioBegin EXCEPT !.audioStep = "recovery"]))

\* what the analyser gives: the microphone's sound when it is connected
\* and its context runs, silence otherwise
Readings ==
  IF /\ analyserRef = "connected"
     /\ audioContextRef # 0 /\ contexts[audioContextRef] = "running"
     /\ micStreamRef # 0 /\ tracks[micStreamRef] = "live"
  THEN Volumes ELSE {0}

\* a tick of the volume monitor on the audio graph as it is
MicPoll == PollTickOf(analyserRef # "null", Readings)

AudioNext ==
  \/ \E k \in 1..MaxAcquiring : GetUserMediaSettles(k)
  \/ HealthTick
  \/ ResumeSettles
  \/ \E id \in StreamIds : TrackEnded(id)
  \/ RecoveryFire
  \/ MicPoll

AudioSpec == Init /\ [][AudioNext]_vars

\* a health check under way gets its answer: the request or the resume it
\* waits for settles
HealthCheckSettles ==
  \/ \E k \in 1..Len(acquiring) :
       acquiring[k] = "health" /\ GetUserMediaSettles(k)
  \/ ResumeSettles

\* the audio graph on its own, every health check getting its answer
GraphNext ==
  \/ \E k \in 1..MaxAcquiring : GetUserMediaSettles(k)
  \/ HealthTick
  \/ ResumeSettles
  \/ \E id \in StreamIds : TrackEnded(id)
  \/ RecoveryFire

AudioFairSpec ==
  Init /\ [][GraphNext]_vars /\ WF_vars(HealthCheckSettles)

(***************************************************************************)
(* Teardown.  React runs the cleanups of the effects when the component    *)
(* is unmounted and renders it no more; what the browser still holds for   *)
(* it (a recognition session, a microphone request, the resource load, a   *)
(* zero-delay timeout) goes on.                                            *)
(***************************************************************************)
\* the cleanups of the component's effects, in declaration order: the
\* unmount effect on the timers (lines 114-130), the status effects
\* (lines 579-585 and 615-620), the render effect (lines 784-795)
unmountCleanups(s) ==
  LET s1 == [clearResultTimer(s) EXCEPT
               !.silenceTimerRef = Off, !.volumeCheckIntervalRef = FALSE,
               !.statusWatchdogRef = Off,
               !.recognitionRestartTimeoutRef = Off]
      s2 == IF s1.status = "idle" THEN volumeCleanup(s1) ELSE s1
  IN IF s2.status \in {"idle", "rendering"} THEN renderCleanup(s2) ELSE s2

\* the unmount effect on the audio graph (lines 131-136) and the cleanup
\* of the health effect (lines 550-555): clearTimeout leaves the ref of
\* the recovery timeout as it is
unmountAudio(a) ==
  disposeAudioResources(
    [a EXCEPT !.mounted = FALSE, !.audioHealthIntervalRef = FALSE,
              !.recoveryTimers =
                 IF a.audioRecoveryTimeoutRef /\ @ > 0 THEN @ - 1 ELSE @])

Unmount ==
  /\ mounted
  /\ \E t \in {unmountCleanups(Begin)} : Becomes(t)
  /\ \E b \in {unmountAudio([AudioBegin EXCEPT !.audioStep = "unmount"])} :
       AudioBecomes(b)
  /\ UNCHANGED layoutVars

\* React drops the state updates queued for a component that is unmounted
DropUpdates ==
  /\ ~mounted
  /\ dirty
  /\ Does([Begin EXCEPT !.dirty = FALSE, !.pStatus = status,
                        !.pText = text, !.pTextSet = FALSE,
                        !.pFadePhase = fadePhase, !.pWatchdog = FALSE])

\* the exhibit to its teardown and after it, in a working installation
TeardownNext ==
  \/ mounted /\ Render /\ Working
  \/ DropUpdates
  \/ Unmount
  \/ \E k \in 1..MaxAcquiring : GetUserMediaSettles(k)
  \/ MicPoll /\ Working
  \/ SilenceTimerFire /\ Working
  \/ ResultTimerFire /\ Working
  \/ IdleTimerFire /\ Working
  \/ DeferredStart /\ Working
  \/ FrameFire /\ Working
  \/ LoadSucceed /\ Working
  \/ \E i \in InstanceIds : OnSpeechStart(i) /\ Working
  \/ \E i \in InstanceIds : OnResult(i, TRUE, ANNYEONG) /\ Working
  \/ \E i \in InstanceIds : OnEnd(i) /\ Working

TeardownSpec == Init /\ [][TeardownNext]_vars

(***************************************************************************)
(* C1.  Every change of status is one of idle->listening, listening->done, *)
(* listening->idle, done->clearing, done->rendering, clearing->rendering,  *)
(* rendering->idle, or a change to idle forced by the watchdog.            *)
(***************************************************************************)
C1_Listed ==
  { <<"idle", "listening">>, <<"listening", "done">>, <<"listening", "idle">>,
    <<"done", "clearing">>, <<"done", "rendering">>,
    <<"clearing", "rendering">>, <<"rendering", "idle">> }

C1_OnlyListedTransitions ==
  [][status' # status =>
       \/ <<status, status'>> \in C1_Listed
       \/ pWatchdog /\ status # "idle" /\ status' = "idle"]_vars

Capturing == {i \in InstanceIds : rec[i] \in {"running", "stopping"}}

SessionLive ==
  recognitionRef # 0 /\ InSession(rec[recognitionRef])

C5_SilenceTimerFollowsSession ==
  /\ "silence" \notin leaked
  /\ silenceTimerRef # Off =>
       /\ silenceTimerRef = SILENCE_TIMEOUT_MS
       /\ ~silenceStale
       /\ SessionLive

C7_ErrorKeepsBufferedSegments ==
  [][/\ lastError # "none" \/ lastError' # "none"
     /\ collectedTranscriptsRef # <<>>
     /\ collectedTranscriptsRef' # collectedTranscriptsRef
     => /\ resultTimerRef' # Off
        /\ resultTranscript' = SpaceJoined(collectedTranscriptsRef)
        /\ pStatus' = "done"]_vars

(***************************************************************************)
(* C8.  A fatal error (network, not-allowed, service-not-allowed,          *)
(* audio-capture) discards the recognizer instance and the next start      *)
(* constructs a new one; after any other error the instance is kept and    *)
(* the next start uses it.                                                 *)
(***************************************************************************)
C8_Fatal == {"network", "not-allowed", "service-not-allowed", "audio-capture"}

C8_FatalDiscardsInstance ==
  [][/\ lastError' \in C8_Fatal => recognitionRef' = 0
     /\ lastError' \notin C8_Fatal \cup {"none"} =>
          recognitionRef' # 0 /\ recognitionRef' = recognitionRef
     /\ lastStart'.result \notin {"none", "deferred"} =>
          /\ lastError \in C8_Fatal =>
               /\ lastStart'.created
               /\ rec[recognitionRef'] = "free"
          /\ lastError \notin C8_Fatal \cup {"none"} =>
               /\ ~lastStart'.created
               /\ recognitionRef' = recognitionRef]_vars

\* a start constructed a second instance while the discarded one was still
\* ending
C8_Witness ==
  /\ lastStart.created
  /\ recognitionRef # 0
  /\ \E i \in InstanceIds : i # recognitionRef /\ rec[i] = "errored"

(***************************************************************************)
(* C9.  Between two starts by the volume gate the component restarts       *)
(* recognition after fatal errors at most RECOGNITION_MAX_RETRIES times.   *)
(***************************************************************************)
C9_RestartsAreCapped == automaticRestarts <= RECOGNITION_MAX_RETRIES

(***************************************************************************)
(* C10.  When the retry cap has suspended the restarts and the component   *)
(* has come to rest in idle, the volume gate is polling.                   *)
(***************************************************************************)
AtRest ==
  /\ ~dirty /\ deferredStarts = 0
  /\ recognitionRestartTimeoutRef = Off /\ silenceTimerRef = Off
  /\ resultTimerRef = Off /\ statusWatchdogRef = Off
  /\ \A i \in InstanceIds : ~InSession(rec[i])

C10_SuspendedStillPolls ==
  suspended /\ status = "idle" /\ AtRest => volumeCheckIntervalRef

(***************************************************************************)
(* C11.  As long as no poll of a working analyser has read the threshold   *)
(* or more (a missing analyser reads 0), startListening is not invoked,    *)
(* no recognizer instance is constructed and status stays idle.            *)
(***************************************************************************)
C11_QuietNeverStarts ==
  ~loud =>
    /\ status = "idle" /\ pStatus = "idle"
    /\ lastStart = NoStart
    /\ recognitionRef = 0 /\ ~recognitionActiveRef
    /\ \A i \in InstanceIds : rec[i] = "free"

\* the poll ran without an analyser and nothing has been started since the
\* component was mounted
C11_Witness ==
  /\ lastPoll = "missing" /\ ~loud
  /\ volumeCheckIntervalRef /\ status = "idle"

(***************************************************************************)
(* C12.  A poll tick that samples the threshold or more invokes            *)
(* startListening in that tick and cancels the poll; a tick that samples   *)
(* less, or has no analyser, invokes nothing and leaves the poll armed;    *)
(* and a start made in a step that is no poll tick is one the component    *)
(* had pending (restart timer, deferred flag, zero-delay task).            *)
(***************************************************************************)
C12_StartsAtFirstLoudTick ==
  [][/\ lastPoll' \in {"equal", "above"} =>
          /\ volumeCheckIntervalRef /\ status = "idle"
          /\ lastStart'.result # "none"
          /\ ~volumeCheckIntervalRef'
     /\ lastPoll' \in {"missing", "below"} =>
          /\ lastStart' = NoStart
          /\ volumeCheckIntervalRef'
          /\ rec' = rec /\ recognitionRef' = recognitionRef
     /\ lastPoll' = "none" /\ lastStart'.result # "none" =>
          \/ pendingRecognitionStartRef
          \/ deferredStarts > 0
          \/ recognitionRestartTimeoutRef # Off]_vars

\* a reading exactly at the threshold started a session and cancelled the
\* poll
C12_Witness ==
  /\ lastPoll = "equal"
  /\ lastStart.result = "started"
  /\ ~volumeCheckIntervalRef
  /\ recognitionRef # 0 /\ rec[recognitionRef] = "running"

(***************************************************************************)
(* C13.  The poll is armed only while status is idle, no interval is ever  *)
(* left behind armed, and a disarmed poll is armed again only by the       *)
(* render in which status becomes idle from another status.                *)
(***************************************************************************)
C13_PollOnlyWhileIdle ==
  [][/\ volumeCheckIntervalRef' => status' = "idle"
     /\ "volume" \notin leaked'
     /\ ~volumeCheckIntervalRef /\ volumeCheckIntervalRef' =>
          status # "idle" /\ status' = "idle"]_vars

\* the poll is armed again after a threshold crossing had cancelled it
C13_Witness ==
  /\ volumeCheckIntervalRef /\ status = "idle"
  /\ loud /\ lastStart = NoStart
  /\ recognitionRef # 0

(***************************************************************************)
(* C14.  Every list that handleTranscript installs is the list that is     *)
(* current when it is installed, followed by the handled utterance.        *)
(***************************************************************************)
C14_AppendExtendsCurrentList ==
  \A k \in 1..Len(installed) :
    installed[k].by = "append" =>
      installed[k].list = installed[k].base \o <<installed[k].utterance>>

(***************************************************************************)
(* C15.  Status becomes clearing from done only and leaves clearing for    *)
(* rendering only (or for idle when the watchdog forces it); text is not   *)
(* changed on the way into clearing nor while status is clearing; and the  *)
(* render that takes status from clearing to rendering installs the        *)
(* one-element list holding the utterance whose candidate overflowed.      *)
(***************************************************************************)
C15_OverflowResetsToPending ==
  [][/\ status # "clearing" /\ status' = "clearing" =>
          status = "done" /\ text' = text
     /\ status = "clearing" /\ status' = "clearing" => text' = text
     /\ status = "clearing" /\ status' # "clearing" =>
          \/ status' = "rendering" /\ text' = <<overflowed>>
          \/ status' = "idle" /\ pWatchdog]_vars

(***************************************************************************)
(* C16.  Every list installed as text, by append or by reset, and the list *)
(* restored at the start, is one for which willTextOverflow is false.      *)
(***************************************************************************)
C16_InstalledListsFit ==
  /\ ~willTextOverflow(FlowerShape, Canvas2D, text)
  /\ \A k \in 1..Len(installed) :
       ~willTextOverflow(FlowerShape, Canvas2D, installed[k].list)

(***************************************************************************)
(* C17.  With a 2D context, willTextOverflow is true exactly when filling  *)
(* the ranges of the shape in order (bottom line first, left to right),    *)
(* each with as many of the next characters of the space-joined text as    *)
(* fit its width, leaves a character over; and it is false for the empty   *)
(* list.                                                                   *)
(***************************************************************************)
\* the maximal runs of points of a line inside the shape
Runs(line) ==
  { r \in (0..Len(line)) \X (0..Len(line)) :
      /\ r[1] < r[2]
      /\ \A x \in r[1]..(r[2] - 1) : line[x + 1]
      /\ r[1] = 0 \/ ~line[r[1]]
      /\ r[2] = Len(line) \/ ~line[r[2] + 1] }

RunsInOrder(line) ==
  CHOOSE seq \in [1..Cardinality(Runs(line)) -> Runs(line)] :
    \A i, j \in DOMAIN seq : i < j => seq[i][1] < seq[j][1]

RECURSIVE AllRuns(_)
AllRuns(shape) ==
  IF shape = <<>> THEN <<>>
  ELSE RunsInOrder(shape[1]) \o AllRuns(Tail(shape))

RECURSIVE WidthOf(_, _, _, _)
WidthOf(chars, width, from, k) ==
  IF k = 0 THEN 0
  ELSE WidthOf(chars, width, from, k - 1) + width[chars[from + k]]

\* how many of the characters after the first `from` fit a width of `room`
Fitting(chars, width, from, room) ==
  CHOOSE k \in 0..(Len(chars) - from) :
    /\ WidthOf(chars, width, from, k) <= room
    /\ k = Len(chars) - from \/ WidthOf(chars, width, from, k + 1) > room

RECURSIVE PlacedAfter(_, _, _, _)
PlacedAfter(chars, width, runs, n) ==
  IF n = 0 THEN 0
  ELSE LET before == PlacedAfter(chars, width, runs, n - 1)
       IN before + Fitting(chars, width, before, runs[n][2] - runs[n][1])

LeavesUnplaced(shape, width, items) ==
  LET chars == SpaceJoined(items)
      runs == AllRuns(shape)
  IN PlacedAfter(chars, width, runs, Len(runs)) < Len(chars)

C17_OverflowIffUnplaced ==
  probe.called =>
    /\ probe.available =>
         probe.result = LeavesUnplaced(layoutResources, layoutFont, probe.items)
    /\ probe.items = <<>> => ~probe.result

\* a list of two utterances overflowed a shape that has a line with two
\* ranges, and a shorter list fitted it before
C17_Witness ==
  /\ probe.called /\ probe.available /\ probe.result
  /\ Len(probe.items) = 2
  /\ \E k \in DOMAIN layoutResources : Cardinality(Runs(layoutResources[k])) = 2
  /\ earlier.called /\ earlier.available /\ ~earlier.result
  /\ earlier.items # <<>>

(***************************************************************************)
(* C18.  Two calls of willTextOverflow with the same shape resource and    *)
(* the same list return the same boolean.                                  *)
(***************************************************************************)
C18_SameInputsSameResult ==
  probe.called /\ earlier.called /\ probe.items = earlier.items =>
    probe.result = earlier.result


(***************************************************************************)
(* C19.  However many render passes and overflow checks ask for the shape  *)
(* resource, the loader body runs once: one fetch is ever issued, every    *)
(* caller that receives a resource receives the one of that fetch, and     *)
(* once the load has completed no caller is left waiting.                  *)
(***************************************************************************)
C19_OneFetchOneResource ==
  /\ fetches = 1
  /\ delivered \subseteq {1}
  /\ flowerResourcesPromise = "loaded" =>
       awaitingOverflow = <<>> /\ ~passWaiting

\* a render pass and an overflow check were both waiting when the load
\* completed, and a later overflow check, made after the completion,
\* was answered at once and appended its utterance
C19_Witness ==
  /\ flowerResourcesPromise = "loaded"
  /\ served >= 2
  /\ delivered = {1}
  /\ Len(text) >= 2
  /\ installed # <<>>


(***************************************************************************)
(* C20.  The stored item follows the list: absent while the list is empty, *)
(* the serialization of the list while it is not; and a page that is       *)
(* loaded again starts with the list the page before it had.               *)
(***************************************************************************)
C20_StoredItemFollowsText ==
  /\ [](/\ text = <<>> => ~storage.present
        /\ text # <<>> =>
             storage.present /\ storage.value = JSONstringify(text))
  /\ [][Reload => text' = text]_vars

\* a page that started from a stored list with a quote in it has appended
\* an utterance, stored the longer list and has been loaded again
C20_Witness ==
  /\ Len(text) >= 2
  /\ \E i \in 1..Len(text[1]) : text[1][i] = Quote
  /\ storage.present
  /\ status = "idle" /\ ~dirty /\ heard = <<>>
  /\ flowerResourcesPromise = "loading" /\ passWaiting


\* health checks that have started and not finished
ChecksUnderWay ==
  Cardinality({k \in 1..Len(acquiring) : acquiring[k] = "health"})
    + (IF resuming # 0 THEN 1 ELSE 0)

(***************************************************************************)
(* C21.  At most one health check is under way and the guard is set        *)
(* exactly while one is; a tick that finds the guard set changes nothing   *)
(* of the audio graph; and a check under way finishes and releases the     *)
(* guard, whatever its request or its resume comes to.                     *)
(***************************************************************************)
C21_OneHealthCheckAtATime ==
  /\ [](/\ ChecksUnderWay <= 1
        /\ audioHealthCheckRunningRef <=> ChecksUnderWay = 1)
  /\ [][audioStep' = "skipped" =>
          /\ audioHealthCheckRunningRef
          /\ acquiring' = acquiring /\ resuming' = resuming
          /\ micStreamRef' = micStreamRef /\ tracks' = tracks
          /\ audioContextRef' = audioContextRef /\ contexts' = contexts
          /\ analyserRef' = analyserRef]_vars
  /\ [](audioHealthCheckRunningRef => <>(~audioHealthCheckRunningRef))

\* a tick found a check waiting for resume() and did nothing
C21_Witness ==
  /\ audioStep = "skipped"
  /\ resuming # 0
  /\ audioHealthCheckRunningRef


(***************************************************************************)
(* C22.  At most one recovery timeout is pending, and the ref names it     *)
(* exactly while it is; an ended event that comes while one is pending     *)
(* arms nothing and rebuilds nothing; the timeout, when it expires, calls  *)
(* reinitializeAudioMonitoring once and leaves none pending.               *)
(***************************************************************************)
C22_OneRecoveryPending ==
  /\ [](/\ recoveryTimers <= 1
        /\ audioRecoveryTimeoutRef <=> recoveryTimers = 1)
  /\ [][audioStep' = "coalesced" =>
          /\ recoveryTimers' = recoveryTimers /\ rebuilds' = 0
          /\ acquiring' = acquiring]_vars
  /\ [][audioStep' = "recovery" =>
          /\ rebuilds' = 1 /\ recoveryTimers' = 0
          /\ ~audioRecoveryTimeoutRef'
          /\ Len(acquiring') = Len(acquiring) + 1]_vars

\* the track of a second stream ended while the timeout armed by the first
\* was pending
C22_Witness ==
  /\ audioStep = "coalesced"
  /\ recoveryTimers = 1
  /\ \A id \in StreamIds : tracks[id] = "ended"


(***************************************************************************)
(* C23.  While no connected analyser is there the volume gate samples      *)
(* nothing and starts nothing, and every health check that runs then       *)
(* calls reinitializeAudioMonitoring.                                      *)
(***************************************************************************)
C23_FailedGraphIsRebuilt ==
  /\ [][lastPoll' # "none" /\ analyserRef # "connected" =>
          lastPoll' \in {"missing", "below"} /\ lastStart' = NoStart]_vars
  /\ [][audioStep' = "tick" /\ analyserRef # "connected" =>
          rebuilds' >= 1]_vars


(***************************************************************************)
(* C24.  At most one frame callback is pending and animationFrameRef names *)
(* it; no frame and no idle-settle timer of an earlier pass is left behind *)
(* when a pass starts; and while the status has no render pass (listening, *)
(* done, clearing) no frame is pending, no idle-settle timer is armed and  *)
(* no pass waits for the shape resource.                                   *)
(***************************************************************************)
C24_OneFrameLoop ==
  /\ frames <= 1
  /\ frames = 1 => animationFrameRef /\ frameLive
  /\ "idle" \notin leaked
  /\ status \notin {"idle", "rendering"} =>
       frames = 0 /\ idleTimer = Off /\ ~passWaiting

\* the pass that had started the animation was superseded with its frame
\* pending: the animation is under way and no frame is scheduled
C24_Witness ==
  /\ newTextAnimationRef.active
  /\ newTextAnimationRef.startTime = "set"
  /\ frames = 0
  /\ ~dirty


(***************************************************************************)
(* C25.  The new-text animation is active exactly while a frame callback   *)
(* is scheduled.                                                           *)
(***************************************************************************)
C25_ActiveIffFramePending ==
  newTextAnimationRef.active <=> frames > 0


(***************************************************************************)
(* C26.  Once the component is unmounted no timer of its is armed and no   *)
(* frame is pending, no recognition session runs, and what completes       *)
(* afterwards leaves the audio graph disposed.                             *)
(***************************************************************************)
C26_TornDownIsQuiet ==
  ~mounted =>
    /\ resultTimerRef = Off /\ silenceTimerRef = Off
    /\ ~volumeCheckIntervalRef /\ statusWatchdogRef = Off
    /\ recognitionRestartTimeoutRef = Off /\ deferredStarts = 0
    /\ ~audioHealthIntervalRef /\ recoveryTimers = 0
    /\ idleTimer = Off /\ frames = 0
    /\ \A i \in InstanceIds : rec[i] \notin {"running", "stopping"}
    /\ micStreamRef = 0 /\ audioContextRef = 0 /\ analyserRef = "null"


(***************************************************************************)
(* C27.  When the load of the shape resource fails under an utterance      *)
(* that is being handled or a render pass that waits for it, the status    *)
(* goes to idle and the text stays as it is; and an utterance handled      *)
(* after the failure makes the loader run again.                           *)
(***************************************************************************)
C27_FailedLoadIsRetried ==
  /\ [][LoadFail /\ (awaitingOverflow # <<>> \/ passWaiting) =>
          pStatus' = "idle" /\ pText' = pText /\ text' = text]_vars
  /\ [][/\ ResultTimerFire
        /\ flowerResourcesPromise = "failed"
        /\ resultTranscript # <<>>
        => fetches' = fetches + 1]_vars


(***************************************************************************)
(* C28.  While a recognition error has had no start after it, onend queues *)
(* no zero-delay start, and the start that comes is made by the restart    *)
(* timer (or by the volume gate, which is no automatic restart).           *)
(***************************************************************************)
C28_RestartOnlyByBackoff ==
  /\ [](deferredStarts > 0 => lastError = "none")
  /\ [][lastError # "none" /\ lastStart' # NoStart =>
          RestartTimerFire \/ PollTick]_vars


\* the deferred-start flag is set while the component is at rest in idle:
\* no render is due, no session is active or ending, no restart timer is
\* armed and no zero-delay start is queued
DeferredFlagAtRest ==
  /\ pendingRecognitionStartRef
  /\ status = "idle" /\ ~dirty
  /\ ~recognitionActiveRef
  /\ \A i \in InstanceIds : ~InSession(rec[i])
  /\ recognitionRestartTimeoutRef = Off
  /\ deferredStarts = 0

(***************************************************************************)
(* C29.  The deferred-start flag is never left set with the component at   *)
(* rest in idle: something that will replay it is always under way.        *)
(***************************************************************************)
C29_DeferredStartIsReplayed == ~DeferredFlagAtRest


\* the calls of fillText made in one range of one line
InRange(filled, line, range) ==
  {k \in DOMAIN filled : filled[k].line = line /\ filled[k].range = range}

RECURSIVE SumOfWidths(_, _)
SumOfWidths(filled, ks) ==
  IF ks = {} THEN 0
  ELSE LET k == CHOOSE x \in ks : TRUE
       IN filled[k].w + SumOfWidths(filled, ks \ {k})

(***************************************************************************)
(* C30.  The characters drawn are the first characters of the space-joined *)
(* text, in order and without a gap; each lies in a range of its line with *)
(* its whole advance before the end of the range, right after the one      *)
(* before it in that range; lines and ranges are used in order; the widths *)
(* drawn in a range sum to no more than its length; the character after    *)
(* the last one of a range would not have fitted there; and the loops of   *)
(* the overflow check, run on the lines the draw path scans, place as many *)
(* characters as the draw path draws.                                      *)
(***************************************************************************)
C30_PlacedInOrderWithinRanges ==
  drawn.called =>
    LET f == drawn.filled
        chars == JoinSp(drawn.items)
    IN /\ Len(f) <= Len(chars)
       /\ \A k \in DOMAIN f :
            /\ f[k].index = k - 1
            /\ f[k].w = layoutFont[chars[k]]
            /\ f[k].line \in DOMAIN canvasLines
            /\ f[k].range \in Runs(canvasLines[f[k].line])
            /\ f[k].range[1] <= f[k].x
            /\ f[k].x + f[k].w <= f[k].range[2]
            /\ SumOfWidths(f, InRange(f, f[k].line, f[k].range))
                 <= f[k].range[2] - f[k].range[1]
       /\ \A k \in DOMAIN f : k > 1 =>
            \/ /\ f[k].line = f[k - 1].line /\ f[k].range = f[k - 1].range
               /\ f[k].x = f[k - 1].x + f[k - 1].w
            \/ /\ \/ f[k].line > f[k - 1].line
                  \/ /\ f[k].line = f[k - 1].line
                     /\ f[k].range[1] > f[k - 1].range[1]
               /\ f[k].x = f[k].range[1]
               /\ f[k - 1].x + f[k - 1].w + f[k].w > f[k - 1].range[2]
       /\ Len(drawn.items) > 0 =>
            PlaceInLines(chars, layoutFont, 0, canvasLines) = Len(f)

\* a list was drawn over two lines, a character that did not fit the
\* bottom line going to the line above, and the overflow check of the same
\* list said it fits
C30_Witness ==
  /\ drawn.called
  /\ Len(drawn.filled) = Len(JoinSp(drawn.items))
  /\ \E k \in DOMAIN drawn.filled :
       /\ k > 1
       /\ drawn.filled[k].line > drawn.filled[k - 1].line
       /\ drawn.filled[k - 1].x + drawn.filled[k - 1].w
            < drawn.filled[k - 1].range[2]
  /\ probe.called /\ probe.available /\ probe.items = drawn.items
  /\ ~probe.result

(***************************************************************************)
(* C31.  For the same list, shape and font the draw path paints as many    *)
(* characters as willTextOverflow places: a list that willTextOverflow     *)
(* says fits is painted in full, and one it says overflows is not.         *)
(***************************************************************************)
C31_DrawPathPaintsWhatIsPlaced ==
  /\ drawn.called /\ Len(drawn.items) > 0 =>
       Len(drawn.filled)
         = PlaceInLines(JoinSp(drawn.items), layoutFont, 0, layoutResources)
  /\ /\ drawn.called /\ probe.called /\ probe.available
     /\ probe.items = drawn.items /\ Len(drawn.items) > 0
     => (probe.result <=> Len(drawn.filled) < Len(JoinSp(drawn.items)))

\* the same, when flowerHeight is whole
C31_SameOnWholeHeight ==
  canvasLines = layoutResources => C31_DrawPathPaintsWhatIsPlaced

(***************************************************************************)
(* C32.  The idle-settle timer is armed only in status rendering with the  *)
(* new-text animation inactive and no frame pending, and once React has    *)
(* rendered an armed one is still in that situation; at most one is armed; *)
(* its callback never runs while the animation is active; the watchdog     *)
(* never ends a rendering phase; and a rendering phase ends only by the    *)
(* callback of the idle-settle timer setting status idle.                  *)
(***************************************************************************)
C32_RenderingSettlesByIdleTimer ==
  /\ [](/\ "idle" \notin leaked
        /\ ~dirty /\ idleTimer # Off =>
             /\ status = "rendering"
             /\ ~newTextAnimationRef.active /\ frames = 0)
  /\ [][idleTimer = Off /\ idleTimer' # Off =>
          /\ status' = "rendering"
          /\ ~newTextAnimationRef'.active /\ frames' = 0]_vars
  /\ [][IdleTimerFire => ~newTextAnimationRef.active]_vars
  /\ [][WatchdogFire => status # "rendering"]_vars
  /\ [][/\ status = "rendering" /\ pStatus = "rendering"
        /\ pStatus' # "rendering"
        => IdleTimerFire]_vars

(***************************************************************************)
(* C33.  When an utterance is appended to a list, previousCharCountRef     *)
(* becomes the number of characters of that list joined by spaces, and     *)
(* after a reset it becomes 0; a frame paints the characters from the      *)
(* count on at the alpha of the animation exactly when the animation is    *)
(* active, with a count that is never more than the number of characters   *)
(* of the text; and the frame that ends the animation leaves it inactive   *)
(* with the count at the number of characters of the text.                 *)
(***************************************************************************)
C33_OnlyNewCharactersFade ==
  /\ [][installed' # <<>> =>
          LET e == installed'[Len(installed')]
          IN previousCharCountRef' =
               IF e.by = "append"
               THEN Len(JoinSp(SubSeq(e.list, 1, Len(e.list) - 1)))
               ELSE 0]_vars
  /\ [][painted'.text =>
          /\ painted'.characters = Len(JoinSp(text'))
          /\ painted'.previousCount <= painted'.characters
          /\ \/ painted'.previousCount = painted'.characters
             \/ painted'.previousCount
                  \in {previousCharCountRef, previousCharCountRef'}
          /\ ~painted'.fades => ~newTextAnimationRef'.active
          /\ painted'.fades /\ ~newTextAnimationRef'.active =>
               previousCharCountRef' = painted'.characters]_vars

(***************************************************************************)
(* C34.  An utterance that finalizeRecognition emitted is not dropped: the *)
(* result timer that holds it is cleared or re-armed only by its own       *)
(* callback, which passes the utterance to handleTranscript; with the      *)
(* shape resource loaded handleTranscript installs it or stores it as the  *)
(* pending utterance; and a pending utterance is replaced only by the      *)
(* reset that installs it.                                                 *)
(***************************************************************************)
C34_EmittedUtteranceIsInstalled ==
  /\ [][/\ resultTimerRef # Off
        /\ resultTimerRef' = Off \/ resultTranscript' # resultTranscript
        => ResultTimerFire]_vars
  /\ [][ResultTimerFire /\ flowerResourcesPromise = "loaded" =>
          \/ pendingTranscriptRef' = resultTranscript
          \/ \E k \in DOMAIN installed' :
               installed'[k].utterance = resultTranscript]_vars
  /\ [][/\ pendingTranscriptRef # <<>>
        /\ pendingTranscriptRef' # pendingTranscriptRef
        => \E k \in DOMAIN installed' :
             /\ installed'[k].by = "reset"
             /\ installed'[k].list = <<pendingTranscriptRef>>]_vars

(***************************************************************************)
(* C35.  Whenever status is idle with React at rest, no session of the     *)
(* recognizer alive, the active flag clear and no timer or zero-delay      *)
(* start waiting, the volume gate is polling: something is always left to  *)
(* start the next capture.                                                 *)
(***************************************************************************)
C35_IdleCanBeTriggered ==
  status = "idle" /\ pStatus = "idle" /\ AtRest /\ ~recognitionActiveRef
    => volumeCheckIntervalRef

(***************************************************************************)
(* C36.  At most one microphone stream has a live track and at most one    *)
(* audio context is open, and they are the ones the refs hold: a stream    *)
(* or a context that a rebuild replaced has been stopped or closed.        *)
(***************************************************************************)
C36_OneStreamOneContext ==
  /\ \A i \in StreamIds : tracks[i] = "live" => micStreamRef = i
  /\ \A c \in ContextIds :
       contexts[c] \notin {"none", "closed"} => audioContextRef = c

(***************************************************************************)
(* C37.  recognitionActiveRef is set exactly while the session of the      *)
(* current instance has started and not yet ended, and start() is never    *)
(* called on an instance whose session has not ended (it never throws      *)
(* InvalidStateError).                                                     *)
(***************************************************************************)
C37_ActiveFlagMirrorsSession ==
  /\ recognitionActiveRef <=>
       recognitionRef # 0 /\ InSession(rec[recognitionRef])
  /\ lastStart.result # "invalid"

(***************************************************************************)
(* C38.  start() of the recognizer is called only while status is idle:    *)
(* in every step that calls it (a poll tick, the deferred-start effect of  *)
(* a render, the restart timer, the zero-delay start that onend queued)    *)
(* the status the component has then is idle.                              *)
(***************************************************************************)
C38_StartOnlyWhileIdle ==
  [][lastStart'.result \in {"started", "invalid", "threw"} =>
       status' = "idle"]_vars

(***************************************************************************)
(* C39.  Once React has rendered, fadePhase is "out" only in status        *)
(* clearing with a non-empty pending utterance stored, so never in status  *)
(* idle; and the reset at the end of the fade-out installs a list of       *)
(* exactly one, non-empty, utterance.                                      *)
(***************************************************************************)
C39_FadedOutOnlyWhileClearing ==
  /\ [](~dirty /\ fadePhase = "out" =>
          status = "clearing" /\ pendingTranscriptRef # <<>>)
  /\ [][\A k \in DOMAIN installed' :
          installed'[k].by = "reset" =>
            /\ Len(installed'[k].list) = 1
            /\ installed'[k].list[1] # <<>>]_vars

\* the list a is the list b without some of its last utterances
IsPrefix(a, b) == Len(a) <= Len(b) /\ a = SubSeq(b, 1, Len(a))

(***************************************************************************)
(* C40.  For one shape and one font, when a list is another list without   *)
(* some of its last utterances, its characters are the first characters of *)
(* the other's, the number of them that is placed is the number placed of  *)
(* the other's or all of them, whichever is less, and with a 2D context    *)
(* for both calls the longer list overflows when the shorter one does.     *)
(***************************************************************************)
C40_OverflowIsMonotone ==
  probe.called /\ earlier.called =>
    \A pair \in {<<earlier, probe>>, <<probe, earlier>>} :
      LET a == JoinSp(pair[1].items)
          b == JoinSp(pair[2].items)
          placedA == PlaceInLines(a, layoutFont, 0, layoutResources)
          placedB == PlaceInLines(b, layoutFont, 0, layoutResources)
      IN IsPrefix(pair[1].items, pair[2].items) =>
           /\ IsPrefix(a, b)
           /\ placedA = IF placedB < Len(a) THEN placedB ELSE Len(a)
           /\ pair[1].available /\ pair[2].available /\ pair[1].result
                => pair[2].result

\* a list that overflows after some of its characters were placed was
\* checked, then the same list with one more utterance
C40_Witness ==
  /\ probe.called /\ earlier.called
  /\ probe.available /\ earlier.available
  /\ Len(earlier.items) > 0 /\ Len(probe.items) > Len(earlier.items)
  /\ IsPrefix(earlier.items, probe.items)
  /\ earlier.result /\ probe.result
  /\ PlaceInLines(JoinSp(earlier.items), layoutFont, 0, layoutResources) > 0

====
